---- MODULE Spec2Model ----
(***************************************************************************)
(* Flight-plan geometry and guidance recomputation pipeline of the A380X   *)
(* MFD: GuidanceController (src/unnamed/part_000), EfisSymbols             *)
(* (src/unnamed/part_001) and the host frame loop of MfdComponent          *)
(* (MFD/pages/common/InputField.tsx, onAfterRender).                       *)
(***************************************************************************)
EXTENDS Integers, Sequences, FiniteSets, TLC

VARIABLES
    phase,  \* "constructed" until MfdComponent.onAfterRender has run, then "running"
    fps,    \* FlightPlanService: per flight-plan index, existence and version counters
    edits,  \* number of flight-plan mutations and display-unit setting changes made so far
    sim,    \* SimVars: display-unit settings read by the code, flags written by it
    gc,     \* the GuidanceController object
    es,     \* the EfisSymbols object
    tick,   \* history of the host frame that has just run (empty after any other step)
    work,   \* a working symbol list under upsertSymbol, with the types upserted per identifier
    ui      \* the MfdUIService object (nav) and an InputField component (field)

vars == <<phase, fps, edits, sim, gc, es, tick, work, ui>>

(***************************************************************************)
(* Bounds of the model                                                     *)
(***************************************************************************)
MaxTimer == 7501     \* frames run while geometryRecomputationTimer is at most this (it grows while the rebuild throws)
MaxEdits == 2        \* number of flight-plan mutations and setting changes in a run
MaxTasks == 2        \* number of tasks ever enqueued in the task queue
MaxUpserts == 3      \* number of upsertSymbol calls on one working list
MaxPending == 2      \* frames run while at most this many throttle timers are pending
MaxLegs == 6         \* legCount of the plans given to the leg scan of getFlightPlanSymbols
maxDigits == 2       \* dataEntryFormat.maxDigits of the field: the pilot's input has at most this many characters
MaxDepth == 4        \* pages are pushed while the navigation stack is shorter than this
MaxPpos == 6         \* the aircraft moves up to this position along its track (NM)

DeltaTimes == {2500}   \* deltaTime values of the host frames (ms)

(***************************************************************************)
(* Program constants                                                       *)
(***************************************************************************)
GEOMETRY_RECOMPUTATION_TIMER == 5000

\* FlightPlanIndex (enum imported from @fmgc/flightplanning/new/FlightPlanManager)
Active == 0
Temporary == 1
FirstSecondary == 3

\* EfisSymbols.update, lines 445-446: maxSymbols = 640 / wordsPerSymbol
wordsPerSymbol == 6
transportWords == 640

FpIndices == {Active, Temporary, FirstSecondary}
Sides == {"L", "R"}
NdModes == {"ARC", "PLAN"}
NdRanges == {10, 20}

\* The five slots GuidanceController.update rebuilds, in call order.
TrackedSlots ==
    << [index |-> Active, alternate |-> FALSE],
       [index |-> Active, alternate |-> TRUE],
       [index |-> Temporary, alternate |-> FALSE],
       [index |-> FirstSecondary, alternate |-> FALSE],
       [index |-> FirstSecondary, alternate |-> TRUE] >>

(***************************************************************************)
(* Maps (JavaScript Map): a function whose domain is the set of keys held  *)
(***************************************************************************)
EmptyMap == [k \in {} |-> 0]
MapHas(m, k) == k \in DOMAIN m
MapSet(m, k, v) == [x \in (DOMAIN m) \cup {k} |-> IF x = k THEN v ELSE m[x]]
MapDelete(m, k) == [x \in (DOMAIN m) \ {k} |-> m[x]]

(***************************************************************************)
(* FlightPlanService and flight plans (collaborators, read by the core)    *)
(***************************************************************************)
Has(index) == index \in FpIndices /\ fps[index].exists

PlanVersion(index, alternate) ==
    IF alternate THEN fps[index].altVersion ELSE fps[index].version

\* Elements of a plan: element 0 is an XF leg, element 1 a discontinuity,
\* element 2 a non-XF leg, and every edit of the plan appends one leg: XF legs,
\* but for the hold (HM) at index HoldIndex.
HoldIndex == 4
LegCount(version) == 3 + version
HasElement(version, i) == i >= 0 /\ i < LegCount(version)
ElementAt(version, i) ==
    IF i = 1 THEN "DISCO" ELSE IF i = 2 THEN "VM" ELSE IF i = HoldIndex THEN "HM" ELSE "TF"
IsXF(leg) == leg = "TF"
ActiveLegIndex == 0

\* A Geometry built from a plan at version v has one leg per non-discontinuity element.
GeometryHasLeg(geometry, i) == HasElement(geometry.ver, i) /\ ElementAt(geometry.ver, i) # "DISCO"

(***************************************************************************)
(* GuidanceController                                                      *)
(***************************************************************************)
hasGeometryForFlightPlan(g, index, alternate) ==
    LET finalIndex == (IF alternate THEN 100 ELSE 0) + index
    IN  MapHas(g.flightPlanGeometries, finalIndex)

\* The EfisState objects of init(): o1 is created at line 292, o2 at line 293.
NewEfisState == [mode |-> "ARC", range |-> 10, dataLimitReached |-> FALSE, legsCulled |-> FALSE]

EmptyTick ==
    [ ev |-> <<>>,              \* stages entered and calls made, in order
      threw |-> {},             \* stages whose code threw
      propagated |-> FALSE,     \* an exception left GuidanceController.update
      calls |-> <<>>,           \* tryUpdateFlightPlanGeometry calls
      pushes |-> <<>>,          \* acceptMultipleLegGeometry calls
      efisRead |-> [s \in Sides |-> "notread"],
      pending |-> {},           \* EfisVectors tasks pending when the tick started
      accumulated |-> 0,        \* geometryRecomputationTimer after line 336
      reads |-> <<>>,           \* geometries read by the symbol generator
      generated |-> {},         \* sides for which the generator transmitted a list
      working |-> [s \in Sides |-> 0],   \* length of the working list of a side's pass
      limited |-> {},           \* sides whose pass set dataLimitReached to true
      pass |-> "none",          \* how the EfisSymbols.update call ended
      absent |-> {},            \* slots the generator scanned and found without geometry
      gate |-> [s \in Sides |-> "notEvaluated"],   \* the test of lines 178-190 per side
      emptied |-> {},           \* sides sent the empty list of line 193
      timersBefore |-> 0,       \* throttle timers pending when EfisSymbols.update was called
      ownBefore |-> 0,          \* timers started by the last transmitting pass before this one
      cacheBefore |-> <<>>,     \* the change-detection cache when EfisSymbols.update was called
      prev |-> [s \in Sides |-> <<>>],   \* the signals when the side's gate was last evaluated
      now |-> [s \in Sides |-> <<>>],    \* the signals at this evaluation of the side's gate
      mrp |-> <<>>,             \* what updateMrpState wrote to the selected-waypoint SimVars
      handler |-> <<>>,         \* the A32NX_IMM_EXIT event handled since the last frame
      fired |-> {},             \* tasks whose callback taskQueue.update fired in this tick
      consecutive |-> FALSE,    \* the step before this frame was a frame as well
      planCentreChanged |-> FALSE ]   \* planCentreChanged of line 155, once computed

Ev(s, e) == [s EXCEPT !.tick.ev = Append(@, e)]
Throw(s, stage) == [s EXCEPT !.exc = TRUE, !.tick.threw = @ \cup {stage}]
Catch(s) == [s EXCEPT !.exc = FALSE]
Faulty(F, stage, k) == <<stage, k>> \in F

\* TaskQueue (@fmgc/guidance/TaskQueue).
TaskQueueCancelAllInCategory(queue, category) ==
    SelectSeq(queue, LAMBDA t : t.category # category)

TaskIds(queue, category) ==
    {queue[i].id : i \in {j \in 1..Len(queue) : queue[j].category = category}}

\* update(deltaTime) that fires the entries reaching zero and leaves them in the queue.
TaskQueueUpdateKeeping(queue, deltaTime) ==
    LET counted == [i \in 1..Len(queue) |-> [queue[i] EXCEPT !.delay = @ - deltaTime]]
    IN  [ queue |-> counted,
          fired |-> {counted[i].id : i \in {j \in 1..Len(counted) : counted[j].delay <= 0}} ]

TaskQueueUpdate(queue, deltaTime) ==
    LET counted == [i \in 1..Len(queue) |-> [queue[i] EXCEPT !.delay = @ - deltaTime]]
    IN  [ queue |-> SelectSeq(counted, LAMBDA t : t.delay > 0),
          fired |-> {counted[i].id : i \in {j \in 1..Len(counted) : counted[j].delay <= 0}} ]

updateEfisApproachMessage(s, side, F) ==
    IF Faulty(F, "updateEfisState", IF side = "L" THEN 1 ELSE 2)
    THEN Throw(s, "updateEfisState")
    ELSE s

\* updateEfisState comparing the mode alone: a range change goes unnoticed.
updateEfisStateModeOnly(s, side, state, F) ==
    LET ndMode == s.sim.ndMode[side]
        ndRange == s.sim.ndRange[side]
        old == s.gc.heap[state]
        s0 == [Ev(s, IF side = "L" THEN "updateEfisStateL" ELSE "updateEfisStateR")
                 EXCEPT !.tick.efisRead[side] =
                    IF old.mode # ndMode \/ old.range # ndRange THEN "changed" ELSE "same"]
        s1 == IF old.mode # ndMode
              THEN [s0 EXCEPT
                      !.gc.cancelled = @ \cup TaskIds(s0.gc.taskQueue, "EfisVectors"),
                      !.gc.taskQueue = TaskQueueCancelAllInCategory(@, "EfisVectors"),
                      !.gc.efisVectorsForced = TRUE,
                      !.tick.ev = @ \o <<"cancelAllInCategory", "forceUpdate">>]
              ELSE s0
        s2 == [s1 EXCEPT !.gc.heap[state].mode = ndMode, !.gc.heap[state].range = ndRange]
    IN  updateEfisApproachMessage(s2, side, F)

updateEfisState(s, side, state, F) ==
    LET ndMode == s.sim.ndMode[side]
        ndRange == s.sim.ndRange[side]
        old == s.gc.heap[state]
        changed == old.mode # ndMode \/ old.range # ndRange
        s0 == [Ev(s, IF side = "L" THEN "updateEfisStateL" ELSE "updateEfisStateR")
                 EXCEPT !.tick.efisRead[side] = IF changed THEN "changed" ELSE "same"]
        s1 == IF changed
              THEN [s0 EXCEPT
                      !.gc.cancelled = @ \cup TaskIds(s0.gc.taskQueue, "EfisVectors"),
                      !.gc.taskQueue = TaskQueueCancelAllInCategory(@, "EfisVectors"),
                      !.gc.efisVectorsForced = TRUE,
                      !.tick.ev = @ \o <<"cancelAllInCategory", "forceUpdate">>]
              ELSE s0
        s2 == [s1 EXCEPT !.gc.heap[state].mode = ndMode, !.gc.heap[state].range = ndRange]
    IN  updateEfisApproachMessage(s2, side, F)

\* GeometryFactory (@fmgc/guidance/geometry/GeometryFactory). A Geometry is an
\* object [id, ver, legs]: id is the instance, ver the plan version it was last
\* built from, legs the Map from leg index to the leg object [inst, exit], where
\* exit is the runtime state left by setImmediateExit (<<>> when never called).
\* An object is told from the others by the holders of a reference to it only:
\* the geometries created for a slot are numbered geometryPIndex + 1,
\* geometryPIndex + 1001, ..., a new one bearing the first of these numbers that
\* no geometry still referenced bears, and a leg is named by its geometry and
\* its index.
Allocated(g) ==
    {g.accepted.vnavDriver, g.accepted.pseudoWaypoints}
    \cup {g.flightPlanGeometries[k].id : k \in DOMAIN g.flightPlanGeometries}

NewObject(allocated, geometryPIndex) ==
    LET n == CHOOSE n \in 0..Cardinality(allocated) :
                 /\ (1000 * n + geometryPIndex + 1) \notin allocated
                 /\ \A m \in 0..(n - 1) : (1000 * m + geometryPIndex + 1) \in allocated
    IN  1000 * n + geometryPIndex + 1

LegIndices(version) == {i \in 0..(LegCount(version) - 1) : ElementAt(version, i) # "DISCO"}

NewLegs(id, indices) == [i \in indices |-> [inst |-> <<id, i>>, exit |-> <<>>]]

createFromFlightPlan(allocated, geometryPIndex, version) ==
    LET id == NewObject(allocated, geometryPIndex)
    IN  [id |-> id, ver |-> version, legs |-> NewLegs(id, LegIndices(version))]

\* The legs of the geometry whose flight-plan leg is still in the plan are kept,
\* the others are created.
updateFromFlightPlan(geometry, version) ==
    LET kept == LegIndices(version) \cap DOMAIN geometry.legs
        added == NewLegs(geometry.id, LegIndices(version) \ kept)
    IN  [geometry EXCEPT !.ver = version,
                         !.legs = [i \in LegIndices(version) |->
                                      IF i \in kept THEN geometry.legs[i] ELSE added[i]]]

\* Lines 453-465 with the update branch creating a geometry as the else branch
\* does: the map entry is replaced at every rebuild.
rebuildSlotReplacing(g, geometryPIndex, version) ==
    [g EXCEPT !.flightPlanGeometries =
                 MapSet(@, geometryPIndex,
                        createFromFlightPlan(Allocated(g), geometryPIndex, version))]

\* Lines 453-465: the slot's geometry is updated in place when there is one,
\* created and put in the map otherwise.
rebuildSlot(g, geometryPIndex, version) ==
    IF MapHas(g.flightPlanGeometries, geometryPIndex)
    THEN [g EXCEPT !.flightPlanGeometries[geometryPIndex] = updateFromFlightPlan(@, version)]
    ELSE [g EXCEPT !.flightPlanGeometries =
                      MapSet(@, geometryPIndex,
                             createFromFlightPlan(Allocated(g), geometryPIndex, version))]

\* tryUpdateFlightPlanGeometry without the version test of line 447: every call
\* for an existing plan rebuilds.
tryUpdateIgnoringVersion(s, flightPlanIndex, alternate, force, fault) ==
    LET geometryPIndex == (IF alternate THEN 100 ELSE 0) + flightPlanIndex
        call == [index |-> flightPlanIndex, alternate |-> alternate, force |-> force,
                 exists |-> Has(flightPlanIndex), unchanged |-> FALSE,
                 had |-> MapHas(s.gc.flightPlanGeometries, geometryPIndex), outcome |-> "evict"]
    IN  IF ~Has(flightPlanIndex)
        THEN [s EXCEPT !.gc.flightPlanGeometries = MapDelete(@, geometryPIndex),
                       !.tick.calls = Append(@, call)]
        ELSE
            LET currentVersion == PlanVersion(flightPlanIndex, alternate)
                same == MapHas(s.gc.lastFlightPlanVersions, flightPlanIndex)
                            /\ s.gc.lastFlightPlanVersions[flightPlanIndex] = currentVersion
                s1 == [s EXCEPT !.gc.lastFlightPlanVersions =
                           MapSet(@, flightPlanIndex, currentVersion)]
                c1 == [call EXCEPT !.unchanged = same]
            IN  IF fault
                THEN [Throw(s1, "rebuild") EXCEPT !.tick.calls =
                        Append(@, [c1 EXCEPT !.outcome = "threw"])]
                ELSE [s1 EXCEPT
                        !.gc = rebuildSlot(@, geometryPIndex, currentVersion),
                        !.tick.calls = Append(@, [c1 EXCEPT !.outcome =
                            IF MapHas(s1.gc.flightPlanGeometries, geometryPIndex)
                            THEN "update" ELSE "create"])]

tryUpdateFlightPlanGeometry(s, flightPlanIndex, alternate, force, fault) ==
    LET geometryPIndex == (IF alternate THEN 100 ELSE 0) + flightPlanIndex
        hasLast == MapHas(s.gc.lastFlightPlanVersions, flightPlanIndex)
        call == [index |-> flightPlanIndex, alternate |-> alternate, force |-> force,
                 exists |-> Has(flightPlanIndex), unchanged |-> FALSE,
                 had |-> MapHas(s.gc.flightPlanGeometries, geometryPIndex), outcome |-> "evict"]
    IN  IF ~Has(flightPlanIndex)
        THEN [s EXCEPT !.gc.flightPlanGeometries = MapDelete(@, geometryPIndex),
                       !.tick.calls = Append(@, call)]
        ELSE
            LET currentVersion == PlanVersion(flightPlanIndex, alternate)
                same == hasLast /\ s.gc.lastFlightPlanVersions[flightPlanIndex] = currentVersion
            IN  IF ~force /\ same
                THEN [s EXCEPT !.tick.calls =
                        Append(@, [call EXCEPT !.unchanged = TRUE, !.outcome = "skip"])]
                ELSE
                    LET s1 == [s EXCEPT !.gc.lastFlightPlanVersions =
                                   MapSet(@, flightPlanIndex, currentVersion)]
                        c1 == [call EXCEPT !.unchanged = same]
                    IN  IF fault
                        THEN [Throw(s1, "rebuild") EXCEPT !.tick.calls =
                                Append(@, [c1 EXCEPT !.outcome = "threw"])]
                        ELSE [s1 EXCEPT
                                !.gc = rebuildSlot(@, geometryPIndex, currentVersion),
                                !.tick.calls = Append(@, [c1 EXCEPT !.outcome =
                                    IF MapHas(s1.gc.flightPlanGeometries, geometryPIndex)
                                    THEN "update" ELSE "create"])]

\* The five tryUpdateFlightPlanGeometry calls of lines 351-355 (force = FALSE) or
\* 360-364 (force = TRUE), from slot k on; a throw ends the sequence.
RECURSIVE RebuildSlots(_, _, _, _)
RebuildSlots(s, k, force, F) ==
    IF k > Len(TrackedSlots) \/ s.exc
    THEN s
    ELSE RebuildSlots(
            tryUpdateFlightPlanGeometry(s, TrackedSlots[k].index, TrackedSlots[k].alternate, force,
                Faulty(F, IF force THEN "forcedRebuild" ELSE "condRebuild", k)),
            k + 1, force, F)

\* The push of lines 366-374 without its own try/catch: a throw reaches the
\* catch of the geometry stage.
AcceptWithoutCatch(s, F) ==
    LET geometry == s.gc.flightPlanGeometries[Active]
        a == Ev(s, "vnavDriver.accept")
        b == IF Faulty(F, "accept", 1)
             THEN Throw(a, "accept")
             ELSE [a EXCEPT !.tick.pushes = Append(@, [to |-> "vnavDriver", geometry |-> geometry]),
                            !.gc.accepted.vnavDriver = geometry.id]
        c == IF b.exc THEN b ELSE Ev(b, "pseudoWaypoints.accept")
    IN  IF c.exc THEN c
        ELSE IF Faulty(F, "accept", 2)
        THEN Throw(c, "accept")
        ELSE [c EXCEPT !.tick.pushes = Append(@, [to |-> "pseudoWaypoints", geometry |-> geometry]),
                            !.gc.accepted.pseudoWaypoints = geometry.id]

\* Lines 366-374: the push of the active geometry, inside its own try/catch.
AcceptActiveGeometry(s, F) ==
    LET geometry == s.gc.flightPlanGeometries[Active]
        a == Ev(s, "vnavDriver.accept")
        b == IF Faulty(F, "accept", 1)
             THEN Throw(a, "accept")
             ELSE [a EXCEPT !.tick.pushes = Append(@, [to |-> "vnavDriver", geometry |-> geometry]),
                            !.gc.accepted.vnavDriver = geometry.id]
        c == IF b.exc THEN b ELSE Ev(b, "pseudoWaypoints.accept")
        d == IF c.exc THEN c
             ELSE IF Faulty(F, "accept", 2)
             THEN Throw(c, "accept")
             ELSE [c EXCEPT !.tick.pushes = Append(@, [to |-> "pseudoWaypoints", geometry |-> geometry]),
                            !.gc.accepted.pseudoWaypoints = geometry.id]
    IN  Catch(d)

updateEfisIdent(s, F) ==
    LET a == Ev(s, "updateEfisIdent")
    IN  IF ~MapHas(a.gc.flightPlanGeometries, Active) \/ Faulty(F, "updateEfisIdent", 1)
        THEN Throw(a, "updateEfisIdent")   \* this.activeGeometry is undefined: .legs throws
        ELSE LET efisIdent == IF GeometryHasLeg(a.gc.flightPlanGeometries[Active], ActiveLegIndex)
                              THEN "TF" ELSE "PPOS"
             IN  [a EXCEPT !.sim.toWptIdent = [side \in Sides |-> efisIdent]]

\* Lines 350-381: one try block around the conditional rebuild, the timed forced
\* rebuild with the push, and the to-waypoint ident refresh.
GeometryStage(s, F) ==
    LET a == RebuildSlots(Ev(s, "condRebuild"), 1, FALSE, F)
        b == IF a.exc THEN a
             ELSE IF a.gc.geometryRecomputationTimer > GEOMETRY_RECOMPUTATION_TIMER
             THEN LET b0 == [Ev(a, "forcedRebuild") EXCEPT !.gc.geometryRecomputationTimer = 0]
                      b1 == RebuildSlots(b0, 1, TRUE, F)
                  IN  IF b1.exc THEN b1
                      ELSE IF MapHas(b1.gc.flightPlanGeometries, Active)
                      THEN AcceptActiveGeometry(b1, F)
                      ELSE b1
             ELSE a
        c == IF b.exc THEN b ELSE updateEfisIdent(b, F)
    IN  Catch(c)

\* What lines 198-199 and lines 219-220 write: the aircraft position, or the
\* termination of leg `leg` of the geometry of slot (index, alternate).
MrpPpos == [value |-> "PPOS", slot |-> -1, leg |-> -1]
MrpTermination(index, alternate, leg) ==
    [value |-> "TERMINATION", slot |-> (IF alternate THEN 100 ELSE 0) + index, leg |-> leg]

updateMrpState(s, F) ==
    LET focusedWpFpIndex == s.sim.selectedWaypointFpIndex
        focusedWpIndex == s.sim.selectedWaypointIndex
        focusedWpInAlternate == s.sim.selectedWaypointInAlternate
        a == Ev(s, "updateMrpState")
    IN  IF Faulty(F, "updateMrpState", 1) THEN Throw(a, "updateMrpState")
        ELSE IF ~Has(Active) THEN a
        ELSE IF ~Has(focusedWpFpIndex) THEN a
        ELSE
            LET version == PlanVersion(focusedWpFpIndex, focusedWpInAlternate)
            IN  IF ~HasElement(version, focusedWpIndex) THEN a
                ELSE IF ElementAt(version, focusedWpIndex) = "DISCO"
                        \/ ~IsXF(ElementAt(version, focusedWpIndex)) THEN a
                ELSE IF ~hasGeometryForFlightPlan(a.gc, focusedWpFpIndex, FALSE) THEN a
                ELSE IF ~hasGeometryForFlightPlan(a.gc, focusedWpFpIndex, focusedWpInAlternate)
                THEN Throw(a, "updateMrpState")   \* getGeometryForFlightPlan(...) is undefined
                ELSE
                    LET geometry == a.gc.flightPlanGeometries[
                                        (IF focusedWpInAlternate THEN 100 ELSE 0) + focusedWpFpIndex]
                    IN  IF ~GeometryHasLeg(geometry, focusedWpIndex)
                        THEN [a EXCEPT !.sim.selectedWaypointLatLong = "PPOS",
                                       !.tick.mrp = <<MrpPpos>>]
                        ELSE
                            LET b == IF a.gc.lastFocusedWpIndex # focusedWpIndex
                                     THEN [a EXCEPT !.gc.lastFocusedWpIndex = focusedWpIndex,
                                                    !.gc.efisVectorsForced = TRUE,
                                                    !.tick.ev = Append(@, "forceUpdate")]
                                     ELSE a
                            IN  [b EXCEPT !.sim.selectedWaypointLatLong = "TERMINATION",
                                          !.tick.mrp = <<MrpTermination(
                                              focusedWpFpIndex, focusedWpInAlternate, focusedWpIndex)>>]

updateMapPartlyDisplayed(s, F) ==
    LET a == Ev(s, "updateMapPartlyDisplayed")
        flag(side) == LET state == a.gc.heap[a.gc.efisStateForSide[side]]
                      IN  state.dataLimitReached \/ state.legsCulled
    IN  IF Faulty(F, "updateMapPartlyDisplayed", 1) THEN Throw(a, "updateMapPartlyDisplayed")
        ELSE [a EXCEPT !.sim.mapPartlyDisplayed = [side \in Sides |-> flag(side)]]

\* A driver update whose code is outside the core: it runs, and it may throw.
Driver(s, name, F) ==
    LET a == Ev(s, name)
    IN  IF Faulty(F, name, 1) THEN Throw(a, name) ELSE a

EfisVectorsUpdate(s, F) ==
    LET a == Driver(s, "efisVectors.update", F)
    IN  IF a.exc THEN a ELSE [a EXCEPT !.gc.efisVectorsForced = FALSE]

TaskQueueStage(s, deltaTime, F) ==
    LET a == Driver(s, "taskQueue.update", F)
        r == TaskQueueUpdate(a.gc.taskQueue, deltaTime)
    IN  IF a.exc THEN a
        ELSE [a EXCEPT !.gc.taskQueue = r.queue, !.gc.fired = @ \cup r.fired,
                       !.tick.fired = r.fired]

\* GuidanceController.update(deltaTime), lines 335-431.
GuidanceControllerUpdate(s, deltaTime, F) ==
    LET s0 == [Ev(s, "GuidanceController.update") EXCEPT
                 !.gc.geometryRecomputationTimer = @ + deltaTime,
                 !.tick.accumulated = s.gc.geometryRecomputationTimer + deltaTime,
                 !.tick.pending = TaskIds(s.gc.taskQueue, "EfisVectors")]
        s1 == updateEfisState(s0, "L", s0.gc.leftEfisState, F)
        s2 == IF s1.exc THEN s1 ELSE updateEfisState(s1, "R", s1.gc.rightEfisState, F)
        s3 == Catch(Driver(s2, "observers", F))
        s4 == GeometryStage(s3, F)
        s5 == Catch(updateMrpState(s4, F))
        s6 == Catch(updateMapPartlyDisplayed(s5, F))
        s7 == Catch(Driver(s6, "lnavDriver.update", F))
        s8 == Catch(Driver(s7, "vnavDriver.update", F))
        s9 == Catch(Driver(s8, "pseudoWaypoints.update", F))
        s10 == Catch(EfisVectorsUpdate(s9, F))
        s11 == Catch(TaskQueueStage(s10, deltaTime, F))
    IN  IF s2.exc
        THEN [s2 EXCEPT !.tick.propagated = TRUE]   \* lines 338-339 are outside every try
        ELSE s11

\* GuidanceController.init(), lines 286-327.
GuidanceControllerInit(s) ==
    LET a == [s EXCEPT !.gc.heap = [o \in {"o1", "o2"} |-> NewEfisState],
                       !.gc.leftEfisState = "o1",
                       !.gc.rightEfisState = "o2",
                       !.gc.efisStateForSide = [L |-> "o1", R |-> "o2"]]
        b == updateEfisState(a, "L", a.gc.leftEfisState, {})
        c == updateEfisState(b, "R", b.gc.rightEfisState, {})
    IN  [c EXCEPT !.gc.efisStateForSide = [L |-> c.gc.leftEfisState, R |-> c.gc.leftEfisState]]

(***************************************************************************)
(* EfisSymbols                                                             *)
(***************************************************************************)
Undefined == <<>>
Max(a, b) == IF a > b THEN a ELSE b
Abs(a) == IF a < 0 THEN -a ELSE a

\* distanceTo (msfs-geo) on positions along one track, in NM.
distanceTo(a, b) == Abs(a - b)

\* MathUtils.diffAngle(a, b): the signed angle from a to b, in [-180, 180).
diffAngle(a, b) == ((b - a + 540) % 360) - 180

\* Lines 226-249, on the working list `symbols`: a symbol is a record
\* [databaseId, location, constraints, direction, length, type, radials, radii];
\* Undefined stands for an absent field and type is a set of flags (|= is \cup).
Coalesce(new, old) == IF new # Undefined THEN new ELSE old

MergeList(new, old) ==
    IF old # Undefined
    THEN IF new # Undefined THEN new \o old ELSE old
    ELSE new

findIndex(symbols, databaseId) ==
    LET hits == {i \in 1..Len(symbols) : symbols[i].databaseId = databaseId}
    IN  IF hits = {} THEN 0 ELSE CHOOSE i \in hits : \A j \in hits : i <= j

splice1(symbols, i) == SubSeq(symbols, 1, i - 1) \o SubSeq(symbols, i + 1, Len(symbols))

\* upsertSymbol without the splice of line 228: the old entry stays in the list.
upsertWithoutSplice(symbols, symbol) ==
    LET symbolIdx == findIndex(symbols, symbol.databaseId)
    IN  IF symbolIdx # 0
        THEN LET oldSymbol == symbols[symbolIdx]
                 merged == [symbol EXCEPT
                     !.constraints = Coalesce(symbol.constraints, oldSymbol.constraints),
                     !.direction = Coalesce(symbol.direction, oldSymbol.direction),
                     !.length = Coalesce(symbol.length, oldSymbol.length),
                     !.location = Coalesce(symbol.location, oldSymbol.location),
                     !.type = symbol.type \cup oldSymbol.type,
                     !.radials = MergeList(symbol.radials, oldSymbol.radials),
                     !.radii = MergeList(symbol.radii, oldSymbol.radii)]
             IN  Append(symbols, merged)
        ELSE Append(symbols, symbol)

upsertSymbol(symbols, symbol) ==
    LET symbolIdx == findIndex(symbols, symbol.databaseId)
    IN  IF symbolIdx # 0
        THEN LET oldSymbol == symbols[symbolIdx]
                 merged == [symbol EXCEPT
                     !.constraints = Coalesce(symbol.constraints, oldSymbol.constraints),
                     !.direction = Coalesce(symbol.direction, oldSymbol.direction),
                     !.length = Coalesce(symbol.length, oldSymbol.length),
                     !.location = Coalesce(symbol.location, oldSymbol.location),
                     !.type = symbol.type \cup oldSymbol.type,
                     !.radials = MergeList(symbol.radials, oldSymbol.radials),
                     !.radii = MergeList(symbol.radii, oldSymbol.radii)]
             IN  Append(splice1(symbols, symbolIdx), merged)
        ELSE Append(symbols, symbol)

\* Lines 445-452. maxSymbols is the fraction 640/6: length > maxSymbols is
\* length * 6 > 640, and splice(0, length - maxSymbols) removes the integer part
\* of length - 640/6 entries from the head of the list.
exceedsMaxSymbols(length) == length * wordsPerSymbol > transportWords

spliceCount(length) == (length * wordsPerSymbol - transportWords) \div wordsPerSymbol

truncateSymbols(symbols) ==
    IF exceedsMaxSymbols(Len(symbols))
    THEN [ symbols |-> SubSeq(symbols, spliceCount(Len(symbols)) + 1, Len(symbols)),
           dataLimitReached |-> TRUE ]
    ELSE [ symbols |-> symbols, dataLimitReached |-> FALSE ]

\* Lines 695-751. Distances are in tenths of a nautical mile; the band of a
\* range is the first of the six tests range <= 10, ..., range <= 160 that holds.
editBandStrict(range) ==
    IF range < 10 THEN 1 ELSE IF range < 20 THEN 2 ELSE IF range < 40 THEN 3
    ELSE IF range < 80 THEN 4 ELSE IF range < 160 THEN 5 ELSE 6

editBand(range) ==
    IF range <= 10 THEN 1 ELSE IF range <= 20 THEN 2 ELSE IF range <= 40 THEN 3
    ELSE IF range <= 80 THEN 4 ELSE IF range <= 160 THEN 5 ELSE 6

calculateEditArea(range, mode) ==
    CASE mode = "ARC" ->
            << <<105, 35, 83>>, <<205, 70, 166>>, <<405, 140, 332>>, <<805, 280, 664>>,
               <<1605, 560, 1328>>, <<3205, 1120, 2656>> >>[editBand(range)]
      [] mode = "ROSE_NAV" ->
            << <<76, 71, 71>>, <<147, 142, 142>>, <<289, 284, 284>>, <<573, 568, 568>>,
               <<1141, 1136, 1136>>, <<2277, 2272, 2272>> >>[editBand(range)]
      [] mode = "PLAN" ->
            << <<70, 70, 70>>, <<140, 140, 140>>, <<280, 280, 280>>, <<560, 560, 560>>,
               <<1120, 1120, 1120>>, <<2240, 2240, 2240>> >>[editBand(range)]
      [] OTHER -> <<0, 0, 0>>

\* Line 214 on the offsets dx = dist * sin(bearing), dy = dist * cos(bearing).
editAreaTest(area, dx, dy) == Abs(dx) < area[3] /\ dy > -area[2] /\ dy < area[1]

\* withinEditArea, lines 200-215. A location is a point <<x, y>> of the plane
\* whose origin is the aircraft and whose y axis is its true heading, in tenths
\* of a nautical mile: distanceTo, bearingTo and the subtraction of trueHeading
\* give the offsets of ll from the reference point in that frame.
withinEditArea(termination, mode, ppos, area, ll) ==
    IF termination = Undefined THEN TRUE
    ELSE LET ref == IF mode = "PLAN" THEN termination ELSE ppos
         IN  editAreaTest(area, ll[1] - ref[1], ll[2] - ref[2])

NewSymbol(databaseId, location, type) ==
    [databaseId |-> databaseId, location |-> location, constraints |-> Undefined,
     direction |-> Undefined, length |-> Undefined, type |-> type,
     radials |-> Undefined, radii |-> Undefined]

\* getFlightPlanSymbols, lines 464-678: the legs with a location that pass the
\* withinEditArea it is given (line 538), then the airport (line 647). The
\* predicate is given as a function from locations to BOOLEAN.
getFlightPlanSymbols(legs, airport, within) ==
    LET kept == SelectSeq(legs, LAMBDA leg : leg.location # Undefined /\ within[leg.location])
        ret == [i \in 1..Len(kept) |-> NewSymbol(kept[i].databaseId, kept[i].location, {"FlightPlan"})]
    IN  IF within[airport.location]
        THEN Append(ret, NewSymbol(airport.databaseId, airport.location, {"Airport"}))
        ELSE ret

RECURSIVE upsertAll(_, _)
upsertAll(symbols, new) ==
    IF new = <<>> THEN symbols
    ELSE upsertAll(upsertSymbol(symbols, Head(new)), Tail(new))

\* The symbols of one side, lines 197-443: the overlay of nearby waypoints
\* (lines 290-300), then the symbols of the active plan, whose call site passes
\* `() => true` as withinEditArea (line 334).
sideSymbols(in) ==
    LET area == calculateEditArea(in.range, in.mode)
        overlay == IF in.efisOption = "Waypoints"
                   THEN SelectSeq(in.nearby, LAMBDA wp :
                            withinEditArea(in.termination, in.mode, in.ppos, area, wp.location))
                   ELSE <<>>
        nearby == [i \in 1..Len(overlay) |->
                      NewSymbol(overlay[i].databaseId, overlay[i].location, {"Waypoint", "EfisOption"})]
        planLocations == {in.legs[i].location : i \in 1..Len(in.legs)} \cup {in.airport.location}
        plan == getFlightPlanSymbols(in.legs, in.airport, [ll \in planLocations |-> TRUE])
    IN  upsertAll(upsertAll(<<>>, nearby), plan)

\* The flight-plan passes of lines 327-414: each plan scanned reads the geometry of
\* its slot, and getFlightPlanSymbols dereferences it (geometry.legs, line 513).
ScannedSlots ==
    << [index |-> Active, alternate |-> FALSE],
       [index |-> Active, alternate |-> TRUE],
       [index |-> Temporary, alternate |-> FALSE],
       [index |-> FirstSecondary, alternate |-> FALSE],
       [index |-> FirstSecondary, alternate |-> TRUE] >>

RECURSIVE ScanPlans(_, _, _)
ScanPlans(s, side, k) ==
    IF k > Len(ScannedSlots) \/ s.exc THEN s
    ELSE
        LET slot == ScannedSlots[k]
            key == (IF slot.alternate THEN 100 ELSE 0) + slot.index
            scanned == Has(slot.index)
                       /\ (slot.alternate => LegCount(fps[slot.index].altVersion) > 0)
        IN  IF ~scanned THEN ScanPlans(s, side, k + 1)
            ELSE IF ~MapHas(s.gc.flightPlanGeometries, key)
            THEN Throw([s EXCEPT !.tick.absent = @ \cup {key}], "EfisSymbols.update")
            ELSE ScanPlans(
                    [s EXCEPT !.tick.reads = Append(@,
                        [side |-> side, index |-> slot.index, alternate |-> slot.alternate,
                         seen |-> s.es.lastFpVersions[slot.index],
                         plan |-> PlanVersion(slot.index, slot.alternate),
                         geometry |-> s.gc.flightPlanGeometries[key].ver])],
                    side, k + 1)

\* The signals the gate of a side tracks, as the pass reads them (lines 82-168).
Signals(s, side, termination) ==
    [ ppos |-> s.sim.ppos,
      trueHeading |-> s.sim.trueHeading,
      nearbyVersion |-> s.sim.nearbyVersion,
      fpVersions |-> [i \in FpIndices |-> IF Has(i) THEN fps[i].version ELSE -1],
      planCentre |-> termination,
      navaidVersion |-> s.sim.navaidVersion,
      vnavDriverVersion |-> s.sim.vnavDriverVersion,
      range |-> s.sim.ndRange[side],
      mode |-> s.sim.ndMode[side],
      efisOption |-> s.sim.efisOption[side] ]

\* The change-detection cache of the object, lines 45-63.
Cache(e) ==
    [ lastMode |-> e.lastMode, lastRange |-> e.lastRange, lastEfisOption |-> e.lastEfisOption,
      lastPlanCentre |-> e.lastPlanCentre, lastPpos |-> e.lastPpos,
      lastTrueHeading |-> e.lastTrueHeading,
      lastNearbyFacilitiesVersion |-> e.lastNearbyFacilitiesVersion,
      lastFpVersions |-> e.lastFpVersions, lastNavaidVersion |-> e.lastNavaidVersion,
      lastVnavDriverVersion |-> e.lastVnavDriverVersion ]

\* One iteration of the loop over the sides, lines 165-461. c holds the values
\* computed before the loop; n is the number of symbols the passes upsert.
SidePass(s, side, c, n) ==
    LET range == s.sim.ndRange[side]
        mode == s.sim.ndMode[side]
        efisOption == s.sim.efisOption[side]
        rangeChange == s.es.lastRange[side] # range
        modeChange == s.es.lastMode[side] # mode
        efisOptionChange == s.es.lastEfisOption[side] # efisOption
        nearbyOverlayChanged == efisOption # "Constraints" /\ efisOption # "None"
                                /\ c.nearbyFacilitiesChanged
        closed == ~c.pposChanged /\ ~c.trueHeadingChanged /\ ~rangeChange /\ ~modeChange
                  /\ ~efisOptionChange /\ ~nearbyOverlayChanged /\ ~c.fpChanged
                  /\ ~c.planCentreChanged /\ ~c.navaidsChanged /\ ~c.vnavPredictionsChanged
        a == [s EXCEPT !.es.lastRange[side] = range,
                       !.es.lastMode[side] = mode,
                       !.es.lastEfisOption[side] = efisOption,
                       !.es.prev[side] = <<Signals(s, side, c.termination)>>,
                       !.tick.prev[side] = s.es.prev[side],
                       !.tick.now[side] = <<Signals(s, side, c.termination)>>,
                       !.tick.gate[side] = IF closed THEN "closed" ELSE "open"]
    IN  IF closed
        THEN a
        ELSE IF mode = "PLAN" /\ ~c.planCentre
        THEN [a EXCEPT !.es.sent[side] = <<>>, !.ret = TRUE,
                       !.tick.emptied = @ \cup {side},
                       !.tick.ev = Append(@, "sendEvent")]
        ELSE
            LET b == ScanPlans(a, side, 1)
                r == truncateSymbols([i \in 1..n[side] |-> i])
            IN  IF b.exc THEN b
                ELSE [b EXCEPT
                        !.gc.heap[b.gc.efisStateForSide[side]].dataLimitReached = r.dataLimitReached,
                        !.es.sent[side] = r.symbols,
                        !.es.reflected[side] =
                            [i \in {j \in FpIndices : Has(j)} |-> fps[i].version],
                        !.es.blockUpdate = TRUE,
                        !.es.timeouts = @ + 1,
                        !.es.own = IF b.tick.generated = {} THEN 1 ELSE @ + 1,
                        !.tick.generated = @ \cup {side},
                        !.tick.working[side] = n[side],
                        !.tick.limited = IF r.dataLimitReached THEN @ \cup {side} ELSE @ \ {side},
                        !.tick.ev = Append(@, "sendEvent")]

\* EfisSymbols.update(deltaTime), lines 74-462.
EfisSymbolsUpdate(s, n) ==
    LET a == [Ev(s, "EfisSymbols.update") EXCEPT
                 !.tick.timersBefore = s.es.timeouts,
                 !.tick.ownBefore = s.es.own,
                 !.tick.cacheBefore = <<Cache(s.es)>>]
        last == a.es.lastFpVersions
        pposChanged == distanceTo(a.es.lastPpos, a.sim.ppos) > 2
        trueHeadingChanged == diffAngle(a.sim.trueHeading, a.es.lastTrueHeading) > 2
        nearbyFacilitiesChanged == a.sim.nearbyVersion # a.es.lastNearbyFacilitiesVersion
        versionChanged(i) == Has(i) /\ (~MapHas(last, i) \/ last[i] # fps[i].version)
        fpChanged == \E i \in FpIndices : versionChanged(i)
        b == [a EXCEPT
                !.es.lastPpos = IF pposChanged THEN a.sim.ppos ELSE @,
                !.es.lastTrueHeading = IF trueHeadingChanged THEN a.sim.trueHeading ELSE @,
                !.es.lastNearbyFacilitiesVersion = a.sim.nearbyVersion,
                !.es.lastFpVersions =
                    [i \in (DOMAIN last) \cup {j \in FpIndices : Has(j)} |->
                        IF Has(i) THEN fps[i].version ELSE last[i]]]
        planCentreFpIndex == a.sim.selectedWaypointFpIndex
        planCentreIndex == a.sim.selectedWaypointIndex
        planCentreInAlternate == a.sim.selectedWaypointInAlternate
    IN  IF a.es.blockUpdate THEN [a EXCEPT !.tick.pass = "blocked"]
        ELSE IF ~Has(planCentreFpIndex) THEN [b EXCEPT !.tick.pass = "noPlan"]
        ELSE
            LET version == PlanVersion(planCentreFpIndex, planCentreInAlternate)
                centreIndex == IF ElementAt(version, planCentreIndex) = "DISCO"
                               THEN Max(0, planCentreIndex - 1) ELSE planCentreIndex
                planCentre == ElementAt(version, centreIndex)
                termination == IF IsXF(planCentre)
                               THEN <<planCentreFpIndex, planCentreInAlternate, centreIndex>>
                               ELSE Undefined
                lastPlanCentre == IF termination # Undefined THEN termination ELSE b.es.lastPlanCentre
                c == [ pposChanged |-> pposChanged,
                       trueHeadingChanged |-> trueHeadingChanged,
                       nearbyFacilitiesChanged |-> nearbyFacilitiesChanged,
                       fpChanged |-> fpChanged,
                       planCentre |-> TRUE,
                       termination |-> termination,
                       planCentreChanged |-> termination # lastPlanCentre,
                       navaidsChanged |-> b.es.lastNavaidVersion # b.sim.navaidVersion,
                       vnavPredictionsChanged |-> b.es.lastVnavDriverVersion # b.sim.vnavDriverVersion ]
                d == [b EXCEPT !.tick.planCentreChanged = c.planCentreChanged,
                               !.es.lastPlanCentre = lastPlanCentre,
                               !.es.lastNavaidVersion = b.sim.navaidVersion,
                               !.es.lastVnavDriverVersion = b.sim.vnavDriverVersion]
                l == SidePass(d, "L", c, n)
                r == IF l.exc \/ l.ret THEN l ELSE SidePass(l, "R", c, n)
            IN  IF ~HasElement(version, planCentreIndex) THEN [b EXCEPT !.tick.pass = "noElement"]
                ELSE IF planCentre = "DISCO"
                THEN Throw([b EXCEPT !.tick.pass = "threw"], "EfisSymbols.update")
                ELSE [r EXCEPT !.tick.pass = IF r.exc THEN "threw" ELSE "loop"]

(***************************************************************************)
(* MfdUIService (FmsPage.tsx) and InputField (InputField.tsx)              *)
(***************************************************************************)
\* FmsPage.tsx lines 187-195: activeUri starts with the empty uri, the
\* navigation stack empty. last is the navigateTo call made last.
\* A uri is the sequence of the parts its slashes separate.
InitNav ==
    [ activeUri |-> [uri |-> <<"">>, sys |-> "None", category |-> "", page |-> "", extra |-> <<>>],
      navigationStack |-> <<>>, last |-> <<>> ]

\* InputField.tsx lines 62-66 and the props after onAfterRender. A string or
\* a value that may be null is <<>> for null and <<x>> for x; a text is the
\* sequence of its characters. pc is where validateAndUpdate waits, input and
\* newValue its locals, display what updateDisplayElement rendered last, last
\* the event handled last.
InitField ==
    [ isFocused |-> FALSE, isValidating |-> FALSE, modifiedFieldValue |-> <<>>,
      value |-> <<>>, display |-> [from |-> "value", text |-> <<"placeholder">>],
      pc |-> "idle", input |-> <<>>, newValue |-> <<>>, last |-> <<>> ]

InitUi == [nav |-> InitNav, field |-> InitField]

(***************************************************************************)
(* MfdComponent: construction, onAfterRender and the setInterval callback  *)
(***************************************************************************)
\* The plans that exist when the update loop starts: the active plan, and the
\* first secondary plan or not.
\* `const symbols: NdSymbol[] = []`, line 216.
NoPass == [mode |-> "none"]
InitWork == [symbols |-> <<>>, types |-> EmptyMap, upserts |-> 0, last |-> Undefined, pass |-> NoPass]

InitFps ==
    { [i \in FpIndices |-> [exists |-> i = Active \/ (i = FirstSecondary /\ secondary),
                            version |-> 0, altVersion |-> 0, holdImmExit |-> FALSE]] :
        secondary \in BOOLEAN }

InitSim ==
    [ ndMode |-> [side \in Sides |-> "ARC"],
      ndRange |-> [side \in Sides |-> 10],
      efisOption |-> [side \in Sides |-> "None"],
      selectedWaypointFpIndex |-> Active,
      selectedWaypointIndex |-> 0,
      selectedWaypointInAlternate |-> FALSE,
      ppos |-> 0,
      trueHeading |-> 0,
      nearbyVersion |-> 0,
      navaidVersion |-> 0,
      vnavDriverVersion |-> 0,
      toWptIdent |-> [side \in Sides |-> ""],
      selectedWaypointLatLong |-> "",
      mapPartlyDisplayed |-> [side \in Sides |-> FALSE] ]

InitGc ==
    [ geometryRecomputationTimer |-> GEOMETRY_RECOMPUTATION_TIMER + 1,
      lastFlightPlanVersions |-> EmptyMap,
      flightPlanGeometries |-> EmptyMap,
      automaticSequencing |-> TRUE,
      accepted |-> [vnavDriver |-> 0, pseudoWaypoints |-> 0],   \* ids of the geometries last accepted
      heap |-> EmptyMap,
      leftEfisState |-> "undefined",
      rightEfisState |-> "undefined",
      efisStateForSide |-> [side \in Sides |-> "undefined"],
      lastFocusedWpIndex |-> -1,
      taskQueue |-> <<>>,
      enqueued |-> 0,
      cancelled |-> {},
      fired |-> {},
      efisVectorsForced |-> FALSE ]

InitEs ==
    [ blockUpdate |-> FALSE,
      timeouts |-> 0,           \* callbacks of setTimeout(..., 200) pending
      own |-> 0,                \* of which the last transmitting pass started this many
      prev |-> [side \in Sides |-> <<>>],       \* the signals when the side's gate was last evaluated
      reflected |-> [side \in Sides |-> EmptyMap],   \* plan versions of the list last transmitted
      lastMode |-> [side \in Sides |-> "-1"],
      lastRange |-> [side \in Sides |-> 0],
      lastEfisOption |-> [side \in Sides |-> "0"],
      lastPlanCentre |-> Undefined,
      lastPpos |-> 0,
      lastTrueHeading |-> -1,
      lastNearbyFacilitiesVersion |-> -1,
      lastFpVersions |-> EmptyMap,
      lastNavaidVersion |-> -1,
      lastVnavDriverVersion |-> -1,
      sent |-> [side \in Sides |-> <<>>] ]

Init ==
    /\ phase = "constructed"
    /\ fps \in InitFps
    /\ edits = 0
    /\ sim = InitSim
    /\ gc = InitGc
    /\ es = InitEs
    /\ tick = EmptyTick
    /\ work = InitWork
    /\ ui = InitUi

\* The start with the active plan alone.
InitActive == Init /\ ~fps[FirstSecondary].exists

State ==
    [gc |-> gc, sim |-> sim, es |-> es, tick |-> [EmptyTick EXCEPT !.handler = tick.handler,
                                                          !.consecutive = tick.accumulated > 0],
     exc |-> FALSE, ret |-> FALSE]

\* onAfterRender, lines 1060-1072 of InputField.tsx: the flight plans are
\* initialised, then efisSymbols.init() and guidanceController.init() run.
\* The objects after a step.
Commit(s) == gc' = s.gc /\ sim' = s.sim /\ es' = s.es /\ tick' = s.tick

OnAfterRender ==
    /\ phase = "constructed"
    /\ phase' = "running"
    /\ Commit(GuidanceControllerInit(State))
    /\ UNCHANGED <<ui, work, fps, edits>>

\* The setInterval callback, lines 1073-1086 of InputField.tsx. The promise of
\* the async efisSymbols.update is not awaited: its rejection stays in it.
HostFrame(s, deltaTime, F, n) ==
    LET a == EfisSymbolsUpdate(s, n)
        b == [a EXCEPT !.exc = FALSE, !.ret = FALSE]
    IN  GuidanceControllerUpdate(b, deltaTime, F)

Frame(deltaTime, F, n) ==
    /\ phase = "running"
    /\ gc.geometryRecomputationTimer <= MaxTimer
    /\ es.timeouts <= MaxPending
    /\ Commit(HostFrame(State, deltaTime, F, n))
    /\ UNCHANGED <<ui, work, phase, fps, edits>>

\* A callback of setTimeout(..., 200), lines 458-460. A pass starts one timer
\* per side it transmits to; the timers fire in the order they were started,
\* each as a task of its own.
ThrottleTimeout ==
    /\ es.timeouts > 0
    /\ es' = [es EXCEPT !.blockUpdate = FALSE, !.timeouts = @ - 1]
    /\ tick' = EmptyTick
    /\ UNCHANGED <<ui, work, phase, fps, edits, sim, gc>>

(***************************************************************************)
(* The environment: flight-plan edits, display-unit settings, tasks        *)
(***************************************************************************)
EditPlan(i, alternate) ==
    /\ phase = "running"
    /\ fps[i].exists
    /\ IF alternate
       THEN /\ i # Temporary
            /\ fps' = [fps EXCEPT ![i].altVersion = @ + 1]
       ELSE fps' = [fps EXCEPT ![i].version = @ + 1]
    /\ edits < MaxEdits
    /\ edits' = edits + 1
    /\ tick' = EmptyTick
    /\ UNCHANGED <<ui, work, phase, sim, gc, es>>

DeletePlan(i) ==
    /\ phase = "running"
    /\ fps[i].exists
    /\ fps' = [fps EXCEPT ![i] = [exists |-> FALSE, version |-> 0, altVersion |-> 0, holdImmExit |-> FALSE]]
    /\ edits < MaxEdits
    /\ edits' = edits + 1
    /\ tick' = EmptyTick
    /\ UNCHANGED <<ui, work, phase, sim, gc, es>>

CreatePlan(i) ==
    /\ phase = "running"
    /\ ~fps[i].exists
    /\ fps' = [fps EXCEPT ![i] = [exists |-> TRUE, version |-> 0, altVersion |-> 0, holdImmExit |-> FALSE]]
    /\ edits < MaxEdits
    /\ edits' = edits + 1
    /\ tick' = EmptyTick
    /\ UNCHANGED <<ui, work, phase, sim, gc, es>>

\* The A32NX_IMM_EXIT handler registered by init(), lines 309-326. Line 311
\* dereferences this.activeGeometry and line 315 dereferences fpLeg: with no
\* active geometry, or no element at fpIndex, the handler throws before it
\* changes anything. incrementVersion is an edit of the plan.
ImmExit(fpIndex, immExit) ==
    /\ phase = "running"
    /\ Has(Active)
    /\ edits < MaxEdits
    /\ edits' = edits + 1
    /\ LET version == fps[Active].version
           hasGeometry == MapHas(gc.flightPlanGeometries, Active)
           fpLegHM == HasElement(version, fpIndex) /\ ElementAt(version, fpIndex) = "HM"
           geometryLegHM == /\ hasGeometry
                            /\ fpIndex \in DOMAIN gc.flightPlanGeometries[Active].legs
                            /\ ElementAt(gc.flightPlanGeometries[Active].ver, fpIndex) = "HM"
           threw == ~hasGeometry \/ ~HasElement(version, fpIndex)
           call == [immExit |-> immExit, ppos |-> "lnavDriver.ppos", tas |-> "AIRSPEED TRUE"]
       IN  /\ fps' = IF ~threw /\ fpLegHM
                     THEN [fps EXCEPT ![Active].holdImmExit = immExit, ![Active].version = @ + 1]
                     ELSE fps
           /\ gc' = IF ~threw /\ geometryLegHM
                    THEN [gc EXCEPT !.flightPlanGeometries[Active].legs[fpIndex].exit = <<call>>,
                                    !.automaticSequencing = TRUE]
                    ELSE gc
           /\ tick' = [EmptyTick EXCEPT !.handler =
                          << [fpIndex |-> fpIndex, immExit |-> immExit, threw |-> threw,
                              fpLegHM |-> fpLegHM, geometryLegHM |-> geometryLegHM,
                              version |-> version] >>]
    /\ UNCHANGED <<ui, work, phase, sim, es>>

\* automaticSequencing is a public field (line 124): the LNAV driver clears it
\* while the aircraft flies a hold.
SuspendSequencing ==
    /\ phase = "running"
    /\ gc.automaticSequencing
    /\ gc' = [gc EXCEPT !.automaticSequencing = FALSE]
    /\ tick' = EmptyTick
    /\ UNCHANGED <<ui, work, phase, fps, edits, sim, es>>

SetNdMode(side, mode) ==
    /\ phase = "running"
    /\ sim.ndMode[side] # mode
    /\ sim' = [sim EXCEPT !.ndMode[side] = mode]
    /\ edits < MaxEdits
    /\ edits' = edits + 1
    /\ tick' = EmptyTick
    /\ UNCHANGED <<ui, work, phase, fps, gc, es>>

SetNdRange(side, range) ==
    /\ phase = "running"
    /\ sim.ndRange[side] # range
    /\ sim' = [sim EXCEPT !.ndRange[side] = range]
    /\ edits < MaxEdits
    /\ edits' = edits + 1
    /\ tick' = EmptyTick
    /\ UNCHANGED <<ui, work, phase, fps, gc, es>>

\* The waypoint selected on the flight-plan page (the L:A32NX_SELECTED_WAYPOINT_* SimVars).
SelectWaypoint(fpIndex, index, inAlternate) ==
    /\ phase = "running"
    /\ <<fpIndex, index, inAlternate>> #
           <<sim.selectedWaypointFpIndex, sim.selectedWaypointIndex, sim.selectedWaypointInAlternate>>
    /\ sim' = [sim EXCEPT !.selectedWaypointFpIndex = fpIndex,
                          !.selectedWaypointIndex = index,
                          !.selectedWaypointInAlternate = inAlternate]
    /\ edits < MaxEdits
    /\ edits' = edits + 1
    /\ tick' = EmptyTick
    /\ UNCHANGED <<ui, work, phase, fps, gc, es>>

\* The aircraft advances along its track (PLANE LATITUDE / PLANE LONGITUDE), by
\* the threshold of line 89 or by more.
MoveSteps == {2, 3}

Move(d) ==
    /\ phase = "running"
    /\ sim.ppos + d <= MaxPpos
    /\ sim' = [sim EXCEPT !.ppos = @ + d]
    /\ tick' = EmptyTick
    /\ UNCHANGED <<ui, work, phase, fps, edits, gc, es>>

\* TaskQueue enqueue (@fmgc/guidance/TaskQueue), called by the drivers.
TaskCategories == {"EfisVectors", "Other"}
TaskDelays == {2500, 5000}

Enqueue(category, delay) ==
    /\ phase = "running"
    /\ gc.enqueued < MaxTasks
    /\ gc' = [gc EXCEPT !.enqueued = @ + 1,
                        !.taskQueue = Append(@, [id |-> gc.enqueued + 1,
                                                 category |-> category, delay |-> delay])]
    /\ tick' = EmptyTick
    /\ UNCHANGED <<ui, work, phase, fps, edits, sim, es>>

(***************************************************************************)
(* Calls that throw within one frame                                       *)
(***************************************************************************)
RebuildFaultPoints == {<<"condRebuild", k>> : k \in 1..Len(TrackedSlots)}

\* The rebuild calls that can throw when the active plan is the only plan: those
\* of the Active and Active-alternate slots.
GeometryFaultPoints ==
    {<<"updateEfisState", 1>>, <<"updateEfisState", 2>>, <<"accept", 1>>, <<"accept", 2>>,
     <<"updateEfisIdent", 1>>}
        \cup {<<stage, k>> : stage \in {"condRebuild", "forcedRebuild"}, k \in 1..2}

DriverFaultPoints ==
    {<<"observers", 1>>, <<"updateMrpState", 1>>, <<"updateMapPartlyDisplayed", 1>>,
     <<"lnavDriver.update", 1>>, <<"vnavDriver.update", 1>>, <<"pseudoWaypoints.update", 1>>,
     <<"efisVectors.update", 1>>, <<"taskQueue.update", 1>>}

EfisStateFaultPoints == {<<"updateEfisState", 1>>, <<"updateEfisState", 2>>}

\* In one frame no call throws, or one does.
FaultSets(points) == {{}} \cup {{f} : f \in points}

\* Numbers of symbols the generator's passes upsert for a side.
FewSymbols == [side \in Sides |-> 2]
SymbolCounts == {2, 106, 107, 108}

(***************************************************************************)
(* Spec: the geometry cache under flight-plan edits, deletions and         *)
(* creations, where a rebuild of the conditional stage may throw           *)
(***************************************************************************)
Next ==
    \/ OnAfterRender
    \/ \E deltaTime \in DeltaTimes, F \in FaultSets(RebuildFaultPoints) :
            Frame(deltaTime, F, FewSymbols)
    \/ \E i \in FpIndices, alternate \in BOOLEAN : EditPlan(i, alternate)
    \/ \E i \in FpIndices : DeletePlan(i)
    \/ \E i \in FpIndices : CreatePlan(i)

Spec == Init /\ [][Next]_vars

(***************************************************************************)
(* SpecFaults: failure containment, any stage of the tick may throw while  *)
(* the active plan is edited, deleted and re-created                       *)
(***************************************************************************)
NextFaults ==
    \/ OnAfterRender
    \/ \E deltaTime \in DeltaTimes, F \in FaultSets(GeometryFaultPoints \cup DriverFaultPoints) :
            Frame(deltaTime, F, FewSymbols)
    \/ EditPlan(Active, FALSE)
    \/ DeletePlan(Active)
    \/ CreatePlan(Active)

SpecFaults == InitActive /\ [][NextFaults]_vars

(***************************************************************************)
(* SpecHold: an active plan of five elements whose last leg is a hold, the *)
(* immediate-exit event, and edits of the plan and of its alternate        *)
(***************************************************************************)
HoldFps ==
    { [i \in FpIndices |-> [exists |-> i = Active, version |-> IF i = Active THEN 2 ELSE 0,
                            altVersion |-> IF i = Active THEN altVersion ELSE 0,
                            holdImmExit |-> FALSE]] : altVersion \in {0, 3} }

InitHold ==
    /\ phase = "constructed"
    /\ fps \in HoldFps
    /\ edits = 0
    /\ sim = InitSim
    /\ gc = InitGc
    /\ es = InitEs
    /\ tick = EmptyTick
    /\ work = InitWork
    /\ ui = InitUi

ImmExitIndices == {0, HoldIndex, 7}

NextHold ==
    \/ OnAfterRender
    \/ \E deltaTime \in DeltaTimes : Frame(deltaTime, {}, FewSymbols)
    \/ \E alternate \in BOOLEAN : EditPlan(Active, alternate)
    \/ \E fpIndex \in ImmExitIndices, immExit \in BOOLEAN : ImmExit(fpIndex, immExit)
    \/ SuspendSequencing
    \/ DeletePlan(Active)
    \/ CreatePlan(Active)
    \/ ThrottleTimeout

SpecHold == InitHold /\ [][NextHold]_vars

(***************************************************************************)
(* SpecMrp: the map reference point while the selected waypoint changes, a *)
(* secondary plan is created and a rebuild of the conditional stage may    *)
(* throw                                                                   *)
(***************************************************************************)
SelectableIndices == {0, 1, 3}

NextMrp ==
    \/ OnAfterRender
    \/ \E deltaTime \in DeltaTimes, F \in FaultSets(RebuildFaultPoints) :
            Frame(deltaTime, F, FewSymbols)
    \/ \E fpIndex \in {Active, FirstSecondary}, index \in SelectableIndices, inAlternate \in BOOLEAN :
            SelectWaypoint(fpIndex, index, inAlternate)
    \/ EditPlan(Active, FALSE)
    \/ CreatePlan(FirstSecondary)
    \/ ThrottleTimeout

SpecMrp == InitActive /\ [][NextMrp]_vars

(***************************************************************************)
(* SpecSymbols: the host frame with the symbol generator's throttle timer  *)
(***************************************************************************)
NextSymbols ==
    \/ OnAfterRender
    \/ \E deltaTime \in DeltaTimes : Frame(deltaTime, {}, FewSymbols)
    \/ ThrottleTimeout
    \/ \E i \in FpIndices, alternate \in BOOLEAN : EditPlan(i, alternate)
    \/ \E i \in FpIndices : DeletePlan(i)
    \/ \E i \in FpIndices : CreatePlan(i)

SpecSymbols == Init /\ [][NextSymbols]_vars

\* A frame would change the objects.
Changes(s) == <<s.gc, s.sim, s.es, s.tick>> # <<gc, sim, es, tick>>

FrameEnabled ==
    /\ phase = "running"
    /\ gc.geometryRecomputationTimer <= MaxTimer
    /\ es.timeouts <= MaxPending
    /\ \E deltaTime \in DeltaTimes : Changes(HostFrame(State, deltaTime, {}, FewSymbols))

\* setInterval keeps calling the frame callback (InputField.tsx, line 1073) and a
\* timer started by setTimeout fires (part_001, line 458): weak fairness of the
\* timer callback and of the frame, the latter written out with FrameEnabled
\* for ENABLED <<Frame>>_vars.
SpecSymbolsFair ==
    /\ SpecSymbols
    /\ WF_vars(ThrottleTimeout)
    /\ \/ []<>(~FrameEnabled)
       \/ []<><<\E deltaTime \in DeltaTimes : Frame(deltaTime, {}, FewSymbols)>>_vars

(***************************************************************************)
(* SpecEfis: display-unit settings (the mode of the left unit, the range   *)
(* of the right unit) and the task queue, where the EfisState refresh may  *)
(* throw                                                                   *)
(***************************************************************************)
NextEfis ==
    \/ OnAfterRender
    \/ \E deltaTime \in DeltaTimes, F \in FaultSets(EfisStateFaultPoints) :
            Frame(deltaTime, F, FewSymbols)
    \/ \E mode \in NdModes : SetNdMode("L", mode)
    \/ \E range \in NdRanges : SetNdRange("R", range)
    \/ \E category \in TaskCategories, delay \in TaskDelays : Enqueue(category, delay)

SpecEfis == InitActive /\ [][NextEfis]_vars

(***************************************************************************)
(* SpecDisplay: the symbol budget of each side and the map-partly-         *)
(* displayed flags                                                         *)
(***************************************************************************)
NextDisplay ==
    \/ OnAfterRender
    \/ \E deltaTime \in DeltaTimes, n \in [Sides -> SymbolCounts] : Frame(deltaTime, {}, n)
    \/ ThrottleTimeout
    \/ \E side \in Sides, mode \in NdModes : SetNdMode(side, mode)

SpecDisplay == InitActive /\ [][NextDisplay]_vars

(***************************************************************************)
(* SpecUpsert: upsertSymbol applied to a working list                      *)
(***************************************************************************)
\* The symbols upserted: two identifiers, a type of one flag, with or without a
\* location, with or without constraints and with or without radials and radii.
SymbolInputs ==
    { [databaseId |-> id, location |-> location, constraints |-> constraints,
       direction |-> Undefined, length |-> Undefined, type |-> {flag},
       radials |-> lists[1], radii |-> lists[2]] :
        id \in {"A", "B"}, flag \in {1, 2}, location \in {Undefined, <<48, 11>>},
        constraints \in {Undefined, <<"+FL100">>},
        lists \in {<<Undefined, Undefined>>, <<<<90>>, <<5>>>>} }

\* One upsertSymbol(symbol) call of a pass, lines 222-250.
Upsert(symbol) ==
    /\ work.upserts < MaxUpserts
    /\ work' = [ symbols |-> upsertSymbol(work.symbols, symbol),
                 types |-> MapSet(work.types, symbol.databaseId,
                              IF MapHas(work.types, symbol.databaseId)
                              THEN work.types[symbol.databaseId] \cup symbol.type
                              ELSE symbol.type),
                 upserts |-> work.upserts + 1,
                 last |-> symbol,
                 pass |-> NoPass ]
    /\ UNCHANGED <<ui, phase, fps, edits, sim, gc, es, tick>>

\* The next pass starts from an empty list, line 216.
NewPass ==
    /\ work # InitWork
    /\ work' = InitWork
    /\ UNCHANGED <<ui, phase, fps, edits, sim, gc, es, tick>>

NextUpsert ==
    \/ \E symbol \in SymbolInputs : Upsert(symbol)
    \/ NewPass

SpecUpsert == InitActive /\ [][NextUpsert]_vars

(***************************************************************************)
(* SpecGate: the change-detection gate and the throttle of the symbol      *)
(* generator while the aircraft moves, the selected waypoint changes and   *)
(* the display modes change                                                *)
(***************************************************************************)
NextGate ==
    \/ OnAfterRender
    \/ \E deltaTime \in DeltaTimes : Frame(deltaTime, {}, FewSymbols)
    \/ ThrottleTimeout
    \/ \E d \in MoveSteps : Move(d)
    \/ \E fpIndex \in {Active, Temporary}, index \in 0..3 : SelectWaypoint(fpIndex, index, FALSE)
    \/ \E side \in Sides, mode \in NdModes : SetNdMode(side, mode)

SpecGate == InitActive /\ [][NextGate]_vars

(***************************************************************************)
(* SpecArea: one side's symbols for a mode, a range, an overlay option, a  *)
(* plan-centre termination or none, and candidate locations                *)
(***************************************************************************)
AreaModes == {"ARC", "ROSE_NAV", "PLAN", "ROSE_ILS"}
AreaRanges == {10, 20, 40, 80, 160, 320}
Locations == {<<0, 90>>, <<0, 110>>, <<90, 0>>, <<0, -40>>}

PassInputs ==
    { [mode |-> mode, range |-> range, efisOption |-> efisOption,
       termination |-> termination, ppos |-> <<0, 0>>,
       nearby |-> << [databaseId |-> "N", location |-> nearbyAt] >>,
       legs |-> << [databaseId |-> "W", location |-> legAt] >>,
       airport |-> [databaseId |-> "A", location |-> airportAt]] :
        mode \in AreaModes, range \in AreaRanges, efisOption \in {"None", "Waypoints"},
        termination \in {Undefined, <<0, 100>>},
        nearbyAt \in Locations, legAt \in Locations, airportAt \in {<<0, 90>>, <<0, 110>>} }

\* One iteration of the loop over the sides up to line 443.
GeneratorPass(in) ==
    /\ work = InitWork
    /\ work' = [InitWork EXCEPT
                    !.symbols = sideSymbols(in),
                    !.pass = in @@ [area |-> calculateEditArea(in.range, in.mode)]]
    /\ UNCHANGED <<ui, phase, fps, edits, sim, gc, es, tick>>

NextArea ==
    \/ \E in \in PassInputs : GeneratorPass(in)
    \/ NewPass

SpecArea == InitActive /\ [][NextArea]_vars

(***************************************************************************)
(* SpecFormat: the altitude formatters of DataEntryFormats.tsx             *)
(***************************************************************************)
\* Text is a sequence of characters. Number.prototype.toString of a natural
\* number, String.prototype.padStart with "0", and Number(text): NaN (here
\* <<>>) for a text that is not a numeral, else <<n>>.
DigitChars == <<"0", "1", "2", "3", "4", "5", "6", "7", "8", "9">>

RECURSIVE toString(_)
toString(n) == IF n < 10 THEN <<DigitChars[n + 1]>> ELSE toString(n \div 10) \o <<DigitChars[(n % 10) + 1]>>

RECURSIVE padStart(_, _)
padStart(text, targetLength) ==
    IF Len(text) >= targetLength THEN text ELSE padStart(<<"0">> \o text, targetLength)

RECURSIVE NumberOf(_, _)
NumberOf(text, acc) ==
    IF text = <<>> THEN <<acc>>
    ELSE LET d == {k \in 1..10 : DigitChars[k] = Head(text)}
         IN  IF d = {} THEN <<>> ELSE NumberOf(Tail(text), 10 * acc + (CHOOSE k \in d : TRUE) - 1)

\* Math.round(value / 100) and (value / 100).toFixed(0) for a natural number of feet.
RoundHundreds(value) == (value + 50) \div 100

\* The range test of the parsers: null (here <<>>) for NaN or a value out of range.
InRange(nbr, minValue, maxValue) ==
    IF nbr # <<>> /\ nbr[1] >= minValue /\ nbr[1] <= maxValue THEN nbr ELSE <<>>

\* FlightLevelFormat, lines 158-187.
FlightLevelFormat_format(value) ==
    IF value = 0 THEN <<"-", "-", "-">>
    ELSE padStart(toString(RoundHundreds(value)), 3)

FlightLevelFormat_parse(input, minValue, maxValue) ==
    LET n == NumberOf(input, 0)
        nbr == IF n = <<>> THEN <<>> ELSE <<n[1] * 100>>
    IN  InRange(nbr, minValue, maxValue)

\* AltitudeOrFlightLevelFormat, lines 80-125. transAlt is the field: Undefined
\* until the subscription of lines 98-101, made without an initial
\* notification, is notified; value >= undefined is false.
AltitudeOrFlightLevelFormat_format(value, transAlt) ==
    IF value = 0 THEN <<"-", "-", "-", "-", "-">>
    ELSE IF transAlt # Undefined /\ value >= transAlt[1]
    THEN padStart(toString(RoundHundreds(value)), 3)
    ELSE toString(value)

AltitudeOrFlightLevelFormat_parse(input, minValue, maxValue) ==
    LET n == NumberOf(input, 0)
        nbr == IF n # <<>> /\ n[1] < 430 THEN <<n[1] * 100>> ELSE n
    IN  InRange(nbr, minValue, maxValue)

\* The values given to the formatters: feet, in steps of AltitudeStep; the
\* transition altitude of the subject given to the constructor; maxValue, with
\* the certified ceiling of the aircraft (43100 ft) as the greatest.
AltitudeStep == 50
MaxValues == {39000, 43100}
TransAlts == {5000, 18000}
Altitudes(maxValue) == {AltitudeStep * k : k \in 0..(maxValue \div AltitudeStep)}

\* format(value) of a formatter, then parse of the text it returned.
RoundTrip(class, subject, notified, maxValue, value) ==
    /\ work = InitWork
    /\ LET transAlt == IF notified THEN <<subject>> ELSE Undefined
           text == IF class = "FlightLevelFormat"
                   THEN FlightLevelFormat_format(value)
                   ELSE AltitudeOrFlightLevelFormat_format(value, transAlt)
           parsed == IF class = "FlightLevelFormat"
                     THEN FlightLevelFormat_parse(text, 0, maxValue)
                     ELSE AltitudeOrFlightLevelFormat_parse(text, 0, maxValue)
       IN  work' = [InitWork EXCEPT !.pass =
                       [mode |-> "format", class |-> class, subject |-> subject,
                        notified |-> notified, maxValue |-> maxValue, value |-> value,
                        text |-> text, parsed |-> parsed]]
    /\ UNCHANGED <<ui, phase, fps, edits, sim, gc, es, tick>>

NextFormat ==
    \/ \E class \in {"FlightLevelFormat", "AltitudeOrFlightLevelFormat"}, subject \in TransAlts,
          notified \in BOOLEAN, maxValue \in MaxValues :
            \E value \in Altitudes(maxValue) : RoundTrip(class, subject, notified, maxValue, value)
    \/ NewPass

SpecFormat == InitActive /\ [][NextFormat]_vars

(***************************************************************************)
(* SpecScan: the loop over the legs in getFlightPlanSymbols                *)
(***************************************************************************)
\* Lines 487-513: the loop from legCount - 1 down, on a plan whose element 1 is
\* a discontinuity. A visit is an iteration of the loop; geometry.legs (line
\* 513) throws in the first iteration that reaches it with an undefined
\* geometry.
RECURSIVE scanLegs(_, _, _, _)
scanLegs(i, activeLegIndex, geometry, visited) ==
    IF ~(i >= activeLegIndex - 1 /\ i >= 0)
    THEN [visited |-> visited, threw |-> FALSE]
    ELSE IF ElementAt(0, i) = "DISCO"
    THEN scanLegs(i - 1, activeLegIndex, geometry, Append(visited, i))
    ELSE IF geometry = Undefined
    THEN [visited |-> Append(visited, i), threw |-> TRUE]
    ELSE scanLegs(i - 1, activeLegIndex, geometry, Append(visited, i))

LegScan(legCount, activeLegIndex, geometry) ==
    /\ work = InitWork
    /\ work' = [InitWork EXCEPT !.pass =
                    [mode |-> "scan", legCount |-> legCount, activeLegIndex |-> activeLegIndex,
                     geometry |-> geometry]
                    @@ scanLegs(legCount - 1, activeLegIndex, geometry, <<>>)]
    /\ UNCHANGED <<ui, phase, fps, edits, sim, gc, es, tick>>

NextScan ==
    \/ \E legCount \in 0..MaxLegs, activeLegIndex \in -1..(MaxLegs + 1),
          geometry \in {Undefined, <<createFromFlightPlan({}, Active, 0)>>} :
            LegScan(legCount, activeLegIndex, geometry)
    \/ NewPass

SpecScan == InitActive /\ [][NextScan]_vars

(***************************************************************************)
(* SpecLegs: the leg symbols of the five plans of a side's pass, the       *)
(* missed-approach legs and the constraint flags                           *)
(***************************************************************************)
\* The getFlightPlanSymbols calls of a pass in their order, lines 326-414, the
\* first argument each passes (lines 328, 345, 363, 381, 399) and the index of
\* the plan each is given. An alternate plan has the index of its plan.
CallSites == <<"ACTIVE", "ACTIVE ALTN", "TMPY", "SEC", "SEC ALTN">>

activeOrTemporary(site) == site # "SEC"

PlanIndex(site) ==
    IF site \in {"ACTIVE", "ACTIVE ALTN"} THEN Active
    ELSE IF site = "TMPY" THEN Temporary ELSE FirstSecondary

\* The plans: five legs each, the last one the first leg of the missed
\* approach. The temporary plan is the active plan with W1 deleted and WX
\* inserted before the missed approach, so W2 and W3 are one leg earlier in it.
FlightPlanLeg(databaseId, altitudeDescriptor, constraintType) ==
    [databaseId |-> databaseId, altitudeDescriptor |-> altitudeDescriptor,
     constraintType |-> constraintType]

PlanLegs(site) ==
    IF site = "ACTIVE"
    THEN << FlightPlanLeg(<<"W", 0>>, "None", "CLB"), FlightPlanLeg(<<"W", 1>>, "AtAlt1", "CLB"),
            FlightPlanLeg(<<"W", 2>>, "AtOrAboveAlt1", "DES"), FlightPlanLeg(<<"W", 3>>, "AtAlt1", "DES"),
            FlightPlanLeg(<<"W", 4>>, "AtAlt1", "DES") >>
    ELSE IF site = "TMPY"
    THEN << FlightPlanLeg(<<"W", 0>>, "None", "CLB"), FlightPlanLeg(<<"W", 2>>, "AtOrAboveAlt1", "DES"),
            FlightPlanLeg(<<"W", 3>>, "AtAlt1", "DES"), FlightPlanLeg(<<"W", 9>>, "None", "DES"),
            FlightPlanLeg(<<"W", 4>>, "AtAlt1", "DES") >>
    ELSE [number \in 1..5 |-> FlightPlanLeg(<<site, number - 1>>,
                                            IF number = 1 THEN "None" ELSE "AtAlt1",
                                            IF number <= 2 THEN "CLB" ELSE "DES")]

firstMissedApproachLegIndex == 4

\* Lines 26-32.
VALID_ALTITUDE_CONSTRAINT_TYPES_FOR_EFIS ==
    {"AtAlt1", "AtOrAboveAlt1", "AtOrBelowAlt1", "BetweenAlt1Alt2", "AtOrAboveAlt2"}

\* Lines 754-758.
shouldShowConstraintCircleInPhase(flightPhase, leg) ==
    \/ flightPhase \in {"Takeoff", "Climb"} /\ leg.constraintType = "CLB"
    \/ flightPhase \in {"Cruise", "Descent", "Approach"} /\ leg.constraintType = "DES"

\* Lines 479-483.
transmitMissed(site, in) ==
    LET correctPlanOnMcdu == IF activeOrTemporary(site)
                             THEN in.planCentreFpIndex = Active
                             ELSE in.planCentreFpIndex = PlanIndex(site)
    IN  correctPlanOnMcdu /\ firstMissedApproachLegIndex - in.planCentreIndex < 4

\* The loop over the legs of getFlightPlanSymbols, lines 487-606, from leg i
\* down, for plans without discontinuity, airport or runway legs whose legs
\* all have a location (written here as the waypoint's identifier), the range
\* below 160 and the overlay option not Constraints. waypointPredictions is undefined when there is no mcduProfile
\* (line 476), and line 570 then throws.
RECURSIVE legSymbols(_, _, _, _)
legSymbols(site, in, i, r) ==
    IF r.exc \/ ~(i >= in.activeLegIndex - 1 /\ i >= 0) THEN r
    ELSE
        LET isFromLeg == i = in.activeLegIndex - 1
            leg == PlanLegs(site)[i + 1]
            active == IF i = in.activeLegIndex THEN {"ActiveLegTermination"} ELSE {}
            eligible == in.isInLatAutoControl /\ ~isFromLeg
                        /\ leg.altitudeDescriptor \in VALID_ALTITUDE_CONSTRAINT_TYPES_FOR_EFIS
            circle == eligible /\ ~in.isSelectedVerticalModeActive
                      /\ shouldShowConstraintCircleInPhase(in.flightPhase, leg)
            predictionAtWaypoint == in.waypointPredictions[i]
            colour == IF predictionAtWaypoint = "met" THEN {"MagentaColor"}
                      ELSE IF predictionAtWaypoint = "unmet" THEN {"AmberColor"} ELSE {}
            constraint == IF circle THEN {"Constraint"} \cup colour
                          ELSE IF eligible /\ i = in.activeLegIndex THEN {"Constraint"} ELSE {}
            symbol == NewSymbol(leg.databaseId, leg.databaseId, {"FlightPlan"} \cup active \cup constraint)
        IN  legSymbols(site, in, i - 1,
                IF i >= firstMissedApproachLegIndex /\ ~transmitMissed(site, in) THEN r
                ELSE IF circle /\ ~in.mcduProfile THEN [r EXCEPT !.exc = TRUE]
                ELSE [r EXCEPT !.ret = Append(@, symbol)])

\* The five calls of a side's pass and the upserts of what they return.
RECURSIVE planSymbols(_, _, _)
planSymbols(in, k, pass) ==
    IF pass.exc \/ k > Len(CallSites) THEN pass
    ELSE LET r == legSymbols(CallSites[k], in, Len(PlanLegs(CallSites[k])) - 1,
                             [ret |-> <<>>, exc |-> FALSE])
         IN  planSymbols(in, k + 1,
                 IF r.exc THEN [pass EXCEPT !.exc = TRUE]
                 ELSE [symbols |-> upsertAll(pass.symbols, r.ret),
                       rets |-> Append(pass.rets, r.ret), exc |-> FALSE])

LegInputs ==
    { [planCentreFpIndex |-> fpIndex, planCentreIndex |-> index, activeLegIndex |-> activeLegIndex,
       isInLatAutoControl |-> lat, isSelectedVerticalModeActive |-> selected,
       flightPhase |-> flightPhase, mcduProfile |-> profile,
       waypointPredictions |-> [i \in 0..4 |-> IF i = 1 THEN at1 ELSE IF i = 2 THEN at2 ELSE "none"]] :
        fpIndex \in FpIndices, index \in {0, 1}, activeLegIndex \in {1, 2},
        lat \in BOOLEAN, selected \in BOOLEAN, flightPhase \in {"Climb", "Descent", "GoAround"},
        profile \in BOOLEAN,
        at1 \in {"none", "met", "unmet"}, at2 \in {"none", "met", "unmet"} }

LegsPass(in) ==
    /\ work = InitWork
    /\ LET r == planSymbols(in, 1, [symbols |-> <<>>, rets |-> <<>>, exc |-> FALSE])
       IN  work' = [InitWork EXCEPT
                       !.symbols = r.symbols,
                       !.pass = [mode |-> "legs", in |-> in, rets |-> r.rets, exc |-> r.exc]]
    /\ UNCHANGED <<ui, phase, fps, edits, sim, gc, es, tick>>

NextLegs ==
    \/ \E in \in LegInputs : LegsPass(in)
    \/ NewPass

SpecLegs == InitActive /\ [][NextLegs]_vars

(***************************************************************************)
(* SpecNav: page navigation of the MFD, MfdUIService.navigateTo            *)
(***************************************************************************)
Back == <<"back">>
PageUris == {<<"fms", "active", "init">>, <<"fms", "active", "f-pln">>, <<"fms", "data", "status", "2">>}

\* FmsPage.tsx lines 197-206, for a uri that is a string.
parseUri(uri) ==
    [ uri |-> uri,
      sys |-> uri[1],
      category |-> IF Len(uri) >= 2 THEN uri[2] ELSE "undefined",
      page |-> IF Len(uri) >= 3 THEN uri[3] ELSE "undefined",
      extra |-> SubSeq(uri, 4, Len(uri)) ]

\* Lines 242-244.
canGoBack(nav) == Len(nav.navigationStack) > 1

\* navigateTo(uri), lines 213-237. After the pop of line 227 the stack may be
\* empty: nextUri is then undefined and uri.split of line 198 throws.
navigateTo(nav, uri) ==
    LET call == [uri |-> uri, threw |-> FALSE, canGoBack |-> canGoBack(nav),
                 activeUri |-> nav.activeUri, navigationStack |-> nav.navigationStack]
        popped == SubSeq(nav.navigationStack, 1, Len(nav.navigationStack) - 1)
    IN  IF uri = nav.activeUri.uri THEN [nav EXCEPT !.last = <<call>>]
        ELSE IF uri = Back
        THEN IF Len(nav.navigationStack) = 0 THEN [nav EXCEPT !.last = <<call>>]
             ELSE IF Len(popped) = 0
             THEN [nav EXCEPT !.navigationStack = popped,
                              !.last = <<[call EXCEPT !.threw = TRUE]>>]
             ELSE [nav EXCEPT !.navigationStack = popped,
                              !.activeUri = parseUri(popped[Len(popped)]),
                              !.last = <<call>>]
        ELSE [nav EXCEPT !.navigationStack = Append(@, uri),
                         !.activeUri = parseUri(uri),
                         !.last = <<call>>]

NavigateTo(uri) ==
    /\ uri # Back => Len(ui.nav.navigationStack) < MaxDepth
    /\ ui' = [ui EXCEPT !.nav = navigateTo(@, uri)]
    /\ UNCHANGED <<phase, fps, edits, sim, gc, es, tick, work>>

NextNav == \E uri \in PageUris \cup {Back} : NavigateTo(uri)

SpecNav == InitActive /\ [][NextNav]_vars

(***************************************************************************)
(* SpecField: an InputField with default props under focus, blur, keys,    *)
(* changes of its value from outside and the steps of its validation       *)
(***************************************************************************)
\* The state of the field before an event, kept as the event handled last.
Before(f, event) ==
    <<[event |-> event, isFocused |-> f.isFocused, isValidating |-> f.isValidating,
       modifiedFieldValue |-> f.modifiedFieldValue, display |-> f.display]>>

\* updateDisplayElement, lines 93-113: the value of the props (formatted, or
\* the placeholders for null) when nothing was typed, else what was typed.
\* The text of a value is written <<"format", value>>.
updateDisplayElement(f) ==
    IF f.modifiedFieldValue = <<>>
    THEN [f EXCEPT !.display = [from |-> "value",
                                text |-> IF f.value = <<>> THEN <<"placeholder">>
                                         ELSE <<"format", f.value[1]>>]]
    ELSE [f EXCEPT !.display = [from |-> "modified", text |-> f.modifiedFieldValue[1]]]

\* this.modifiedFieldValue.set(x): a Subject notifies its subscriber, line 339,
\* when the value it is given differs from the one it holds.
setModifiedFieldValue(f, x) ==
    IF f.modifiedFieldValue = x THEN f
    ELSE updateDisplayElement([f EXCEPT !.modifiedFieldValue = x])

\* onNewValue without the test of line 72.
onNewValueWhileEdited(f) ==
    updateDisplayElement(setModifiedFieldValue(f, <<>>))

\* onNewValue, lines 70-91, the subscriber of props.value (line 338).
onNewValue(f) ==
    IF f.isFocused \/ f.isValidating THEN f
    ELSE updateDisplayElement(setModifiedFieldValue(f, <<>>))

\* onKeyPress for a character key, lines 173-183.
onKeyPress(f, key) ==
    LET a == IF f.modifiedFieldValue = <<>> THEN setModifiedFieldValue(f, << <<>> >>) ELSE f
    IN  IF Len(a.modifiedFieldValue[1]) < maxDigits
        THEN setModifiedFieldValue(a, <<Append(a.modifiedFieldValue[1], key)>>)
        ELSE a

\* onKeyDown for the backspace key, lines 154-165, canBeCleared being true.
onKeyDown(f) ==
    IF f.modifiedFieldValue = <<>> THEN setModifiedFieldValue(f, << <<>> >>)
    ELSE IF Len(f.modifiedFieldValue[1]) = 0 THEN f
    ELSE setModifiedFieldValue(f, <<SubSeq(f.modifiedFieldValue[1], 1, Len(f.modifiedFieldValue[1]) - 1)>>)

\* onFocus, lines 198-211, disabled and inactive being false.
onFocus(f) ==
    IF ~f.isFocused /\ ~f.isValidating
    THEN updateDisplayElement(setModifiedFieldValue([f EXCEPT !.isFocused = TRUE], <<>>))
    ELSE f

\* validateAndUpdate up to the await of line 259: parse is called with input.
validateAndUpdate(f, input) ==
    [f EXCEPT !.isValidating = TRUE, !.input = input, !.pc = "parse"]

\* onBlur, lines 213-240, up to the await of line 226 or 228.
onBlur(f, validate) ==
    IF ~f.isFocused THEN f
    ELSE LET a == updateDisplayElement([f EXCEPT !.isFocused = FALSE])
         IN  IF ~validate THEN a
             ELSE IF a.modifiedFieldValue = <<>> /\ a.value # <<>>
             THEN validateAndUpdate(a, <<"format", a.value[1]>>)
             ELSE validateAndUpdate(a, IF a.modifiedFieldValue = <<>> THEN <<>>
                                       ELSE a.modifiedFieldValue[1])

\* validateAndUpdate from line 259 to the await of line 271, 277 or 280: parse
\* returned newValue or threw, and a throw leaves newValue null.
afterParse(f, newValue) ==
    [f EXCEPT !.newValue = newValue, !.pc = "validation"]

\* validateAndUpdate from the await to its end, lines 271-296. validation is
\* what dataHandlerDuringValidation resolved with, "rejected" when it rejected
\* and "none" when there is no such prop; modified tells how onModified ends,
\* "none" when there is no such prop and the value is a Subject that is set,
\* which calls onNewValue. A throw of onModified ends the function at line 286.
afterValidation(f, validation, modified) ==
    LET updateWasSuccessful == validation \notin {"false", "rejected"}
        a == [f EXCEPT !.pc = "idle"]
        b == IF updateWasSuccessful /\ modified = "none" /\ a.value # a.newValue
             THEN onNewValue([a EXCEPT !.value = a.newValue])
             ELSE a
    IN  IF updateWasSuccessful /\ modified = "throws" THEN a
        ELSE [setModifiedFieldValue(b, <<>>) EXCEPT !.isValidating = FALSE]

Values == {<<>>, <<"A">>, <<"B">>}

FieldEvent(event, f) ==
    /\ ui' = [ui EXCEPT !.field = [f EXCEPT !.last = Before(ui.field, event)]]
    /\ UNCHANGED <<phase, fps, edits, sim, gc, es, tick, work>>

ValueChange(value) ==
    /\ value # ui.field.value
    /\ FieldEvent("valueChange", onNewValue([ui.field EXCEPT !.value = value]))

Focus == FieldEvent("focus", onFocus(ui.field))

Blur(validate) == FieldEvent("blur", onBlur(ui.field, validate))

KeyPress(key) == FieldEvent("keypress", onKeyPress(ui.field, key))

\* The Enter key, lines 184-193: onBlur(true), directly or through blur().
Enter == FieldEvent("enter", onBlur(ui.field, TRUE))

KeyDown == FieldEvent("keydown", onKeyDown(ui.field))

ParseSettles(newValue) ==
    /\ ui.field.pc = "parse"
    /\ FieldEvent("parse", afterParse(ui.field, newValue))

ValidationSettles(validation, modified) ==
    /\ ui.field.pc = "validation"
    /\ FieldEvent(IF validation \notin {"false", "rejected"} /\ modified = "throws"
                  THEN "threw" ELSE "validated",
                  afterValidation(ui.field, validation, modified))

Validations == {"true", "false", "nothing", "rejected", "none"}
Modifications == {"returns", "throws", "none"}

NextField ==
    \/ \E value \in Values : ValueChange(value)
    \/ Focus
    \/ \E validate \in BOOLEAN : Blur(validate)
    \/ KeyPress("1")
    \/ Enter
    \/ KeyDown
    \/ \E newValue \in Values : ParseSettles(newValue)
    \/ \E validation \in Validations, modified \in Modifications :
            ValidationSettles(validation, modified)

SpecField == InitActive /\ [][NextField]_vars

\* The promises validateAndUpdate awaits settle: parse, then
\* dataHandlerDuringValidation and the timer of line 269.
SpecFieldFair ==
    /\ SpecField
    /\ WF_vars(\E newValue \in Values : ParseSettles(newValue))
    /\ WF_vars(\E validation \in Validations, modified \in Modifications :
                   ValidationSettles(validation, modified))

(***************************************************************************)
(* Properties                                                              *)
(***************************************************************************)
\* A host frame has just run: the ghost record holds that frame's history.
TickDone == tick.accumulated > 0

SlotSet == {TrackedSlots[k] : k \in 1..Len(TrackedSlots)}

\* C1: for every tracked slot whose flight plan exists and whose version counter
\* equals the last-seen version recorded for its flight-plan index, a call of
\* tryUpdateFlightPlanGeometry with force = false leaves the geometry map and the
\* last-seen-version map unchanged, and every such call made by a tick neither
\* creates nor updates nor recomputes a geometry.
C1_UnchangedVersionIsNoOp ==
    /\ \A slot \in SlotSet, fault \in BOOLEAN :
          ( /\ Has(slot.index)
            /\ MapHas(gc.lastFlightPlanVersions, slot.index)
            /\ gc.lastFlightPlanVersions[slot.index] = PlanVersion(slot.index, slot.alternate) )
          => LET r == tryUpdateFlightPlanGeometry(State, slot.index, slot.alternate, FALSE, fault)
             IN  /\ r.gc.flightPlanGeometries = gc.flightPlanGeometries
                 /\ r.gc.lastFlightPlanVersions = gc.lastFlightPlanVersions
                 /\ ~r.exc
    /\ \A k \in 1..Len(tick.calls) :
          (tick.calls[k].exists /\ ~tick.calls[k].force /\ tick.calls[k].unchanged)
          => tick.calls[k].outcome = "skip"

\* A tick made an unforced call for an existing plan at its last-seen version,
\* and the slot of that plan holds no geometry (an earlier rebuild threw).
C1_Witness ==
    /\ TickDone
    /\ \E k \in 1..Len(tick.calls) :
          /\ tick.calls[k].exists /\ ~tick.calls[k].force /\ tick.calls[k].unchanged
          /\ tick.calls[k].index = Active /\ ~tick.calls[k].alternate
    /\ ~hasGeometryForFlightPlan(gc, Active, FALSE)
\* C2: after tryUpdateFlightPlanGeometry returns for a slot whose flight plan does
\* not exist, for either value of force, the slot holds no geometry; and after
\* every completed tick none of the five tracked slots holds a geometry for a
\* flight plan that does not exist.
C2_Eviction ==
    /\ \A slot \in SlotSet, force \in BOOLEAN, fault \in BOOLEAN :
          ~Has(slot.index)
          => LET r == tryUpdateFlightPlanGeometry(State, slot.index, slot.alternate, force, fault)
             IN  ~hasGeometryForFlightPlan(r.gc, slot.index, slot.alternate)
    /\ (TickDone /\ ~tick.propagated)
          => \A slot \in SlotSet :
                ~Has(slot.index) => ~hasGeometryForFlightPlan(gc, slot.index, slot.alternate)

\* The first part of C2 alone: the call evicts.
C2_CallEvicts ==
    \A slot \in SlotSet, force \in BOOLEAN, fault \in BOOLEAN :
        ~Has(slot.index)
        => LET r == tryUpdateFlightPlanGeometry(State, slot.index, slot.alternate, force, fault)
           IN  ~hasGeometryForFlightPlan(r.gc, slot.index, slot.alternate)

\* A tick evicted: a slot held a geometry, its plan was deleted, and a call of the
\* following tick removed the geometry.
C2_Witness ==
    /\ TickDone
    /\ \E k \in 1..Len(tick.calls) : tick.calls[k].outcome = "evict" /\ tick.calls[k].had
    /\ \A slot \in SlotSet :
          ~Has(slot.index) => ~hasGeometryForFlightPlan(gc, slot.index, slot.alternate)
StageRan(e) == \E k \in 1..Len(tick.ev) : tick.ev[k] = e

\* The stages every tick of GuidanceController.update runs, in the order of lines 338-430.
EveryTickStages ==
    {"updateEfisStateL", "updateEfisStateR", "observers", "condRebuild", "updateEfisIdent",
     "updateMrpState", "updateMapPartlyDisplayed", "lnavDriver.update", "vnavDriver.update",
     "pseudoWaypoints.update", "efisVectors.update", "taskQueue.update"}

\* C3: whatever stage of a tick throws, the exception does not leave
\* GuidanceController.update and every stage of the per-tick order still runs in
\* that tick: the twelve stages of every tick, and the timed forced rebuild when
\* the accumulated time exceeds the rebuild interval.
C3_FailureContainment ==
    TickDone =>
        /\ ~tick.propagated
        /\ \A e \in EveryTickStages : StageRan(e)
        /\ (tick.accumulated > GEOMETRY_RECOMPUTATION_TIMER) => StageRan("forcedRebuild")

\* A tick in which a stage threw and was contained: every stage ran.
C3_Witness ==
    /\ TickDone
    /\ "lnavDriver.update" \in tick.threw
    /\ ~tick.propagated
    /\ \A e \in EveryTickStages : StageRan(e)
\* C4: in every host frame GuidanceController.update runs before
\* EfisSymbols.update, and every geometry the symbol generator reads for a plan
\* was built from the plan version the generator has marked as seen.
C4_GuidanceBeforeSymbols ==
    TickDone =>
        /\ \A i, j \in 1..Len(tick.ev) :
              (tick.ev[i] = "GuidanceController.update" /\ tick.ev[j] = "EfisSymbols.update")
              => i < j
        /\ \A k \in 1..Len(tick.reads) :
              ~tick.reads[k].alternate => tick.reads[k].geometry = tick.reads[k].seen

\* The generator marked a plan version as seen and read, in the same frame, the
\* geometry of an older version of that plan.
C4_Witness ==
    /\ TickDone
    /\ \E k \in 1..Len(tick.reads) :
          /\ ~tick.reads[k].alternate
          /\ tick.reads[k].seen = tick.reads[k].plan
          /\ tick.reads[k].geometry < tick.reads[k].seen
    /\ \E i, j \in 1..Len(tick.ev) :
          /\ tick.ev[i] = "EfisSymbols.update" /\ tick.ev[j] = "GuidanceController.update"
          /\ i < j
StageEvent(side) == IF side = "L" THEN "updateEfisStateL" ELSE "updateEfisStateR"

\* The events of the EfisState refresh, lines 338-339: those before the observers.
RefreshEvents ==
    {k \in 1..Len(tick.ev) : \A j \in 1..k : tick.ev[j] # "observers"}

\* C5: when the mode or range a tick reads for a side differs from that side's
\* stored EfisState, the tick cancels every pending EfisVectors task (none of
\* them ever fires) and calls EfisVectors.forceUpdate right then, before the
\* tick's EFIS-vector update and task-queue update; when no side changed, the
\* refresh cancels nothing and forces nothing.
C5_SettingChangeCancelsAndForces ==
    /\ gc.cancelled \cap gc.fired = {}
    /\ TickDone =>
        /\ \A side \in Sides :
              tick.efisRead[side] = "changed" =>
                 /\ tick.pending \subseteq gc.cancelled
                 /\ TaskIds(gc.taskQueue, "EfisVectors") = {}
                 /\ \E i \in 1..Len(tick.ev) :
                       /\ tick.ev[i] = StageEvent(side)
                       /\ i + 2 <= Len(tick.ev)
                       /\ tick.ev[i + 1] = "cancelAllInCategory"
                       /\ tick.ev[i + 2] = "forceUpdate"
                       /\ \A k \in 1..Len(tick.ev) :
                             tick.ev[k] \in {"efisVectors.update", "taskQueue.update"}
                             => i + 2 < k
        /\ (\A side \in Sides : tick.efisRead[side] # "changed") =>
                 /\ tick.pending \cap gc.cancelled = {}
                 /\ \A k \in RefreshEvents :
                       tick.ev[k] \notin {"cancelAllInCategory", "forceUpdate"}

\* The range of the right unit changed while an EfisVectors task and another
\* task were pending: the first was cancelled, the other fired in that tick.
C5_Witness ==
    /\ TickDone
    /\ tick.efisRead["R"] = "changed"
    /\ tick.efisRead["L"] = "same"
    /\ tick.pending # {}
    /\ gc.fired # {}
    /\ StageRan("efisVectors.update")
\* The slots a tick rebuilt with force = true.
ForcedSlots ==
    {[index |-> tick.calls[k].index, alternate |-> tick.calls[k].alternate] :
        k \in {j \in 1..Len(tick.calls) : tick.calls[j].force}}

\* C6: a tick makes the forced calls for all five tracked slots exactly when the
\* time accumulated since the previous forced rebuild, the tick's deltaTime
\* included, exceeds 5000 ms, and the accumulator is 0 after a tick that forced;
\* the first tick after construction forces.
C6_ForcedRebuildCadence ==
    TickDone =>
        /\ (tick.accumulated > GEOMETRY_RECOMPUTATION_TIMER) => ForcedSlots = SlotSet
        /\ (tick.accumulated <= GEOMETRY_RECOMPUTATION_TIMER) => ForcedSlots = {}
        /\ (tick.accumulated > GEOMETRY_RECOMPUTATION_TIMER) => gc.geometryRecomputationTimer = 0

\* A tick whose accumulated time is exactly 5000 ms did not force, after an
\* earlier tick had forced and reset the accumulator.
C6_Witness ==
    /\ TickDone
    /\ tick.accumulated = GEOMETRY_RECOMPUTATION_TIMER
    /\ ForcedSlots = {}
    /\ gc.geometryRecomputationTimer = GEOMETRY_RECOMPUTATION_TIMER
\* The stages that follow the push of the active geometry in a tick.
StagesAfterPush ==
    {"updateEfisIdent", "updateMrpState", "updateMapPartlyDisplayed", "lnavDriver.update",
     "vnavDriver.update", "pseudoWaypoints.update", "efisVectors.update", "taskQueue.update"}

\* C7: a tick pushes the active geometry to the VNAV driver and to the
\* pseudo-waypoint generator only if its forced rebuild ran for all five slots
\* and an Active geometry exists, at most once for each consumer and with the
\* controller's current Active geometry; when the push throws, the exception
\* stays inside update() and the ident refresh and every later stage still run.
C7_PushOnlyOnForcedRebuild ==
    TickDone =>
        /\ tick.pushes # <<>> =>
              /\ StageRan("forcedRebuild")
              /\ ForcedSlots = SlotSet
              /\ tick.accumulated > GEOMETRY_RECOMPUTATION_TIMER
              /\ MapHas(gc.flightPlanGeometries, Active)
        /\ \A i, j \in 1..Len(tick.pushes) : tick.pushes[i].to = tick.pushes[j].to => i = j
        /\ \A k \in 1..Len(tick.pushes) :
              /\ tick.pushes[k].to \in {"vnavDriver", "pseudoWaypoints"}
              /\ tick.pushes[k].geometry = gc.flightPlanGeometries[Active]
        /\ "accept" \in tick.threw =>
              /\ ~tick.propagated
              /\ \A e \in StagesAfterPush : StageRan(e)

\* The push to the pseudo-waypoint generator threw after the VNAV driver had
\* accepted the geometry of an edited plan, and the ident refresh ran.
C7_Witness ==
    /\ TickDone
    /\ "accept" \in tick.threw
    /\ Len(tick.pushes) = 1
    /\ tick.pushes[1].to = "vnavDriver"
    /\ tick.pushes[1].geometry.ver > 0
    /\ StageRan("updateEfisIdent")
\* The EfisState record update() refreshes from a side's settings, lines 338-339.
OwnEfisState(side) == IF side = "L" THEN gc.leftEfisState ELSE gc.rightEfisState

\* C8: after every tick, the MAP_PARTLY_DISPLAYED flag written for a side equals
\* dataLimitReached or legsCulled of that side's own EfisState, the record that
\* is refreshed from the side's settings and exposed as efisStateForSide[side].
C8_MapPartlyDisplayedPerSide ==
    (TickDone /\ StageRan("updateMapPartlyDisplayed")) =>
        \A side \in Sides :
            /\ gc.efisStateForSide[side] = OwnEfisState(side)
            /\ sim.mapPartlyDisplayed[side] =
                  (gc.heap[OwnEfisState(side)].dataLimitReached
                      \/ gc.heap[OwnEfisState(side)].legsCulled)

\* The list sent to the left unit was cut for the data limit, the list of the
\* right unit was not, and the tick wrote a false flag for the left unit.
C8_Witness ==
    /\ TickDone
    /\ StageRan("updateMapPartlyDisplayed")
    /\ tick.generated = Sides
    /\ exceedsMaxSymbols(Len(es.sent["L"]))
    /\ ~exceedsMaxSymbols(Len(es.sent["R"]))
    /\ ~sim.mapPartlyDisplayed["L"]
\* The working list of a pass that upserted n symbols, oldest first.
WorkingList(n) == [i \in 1..n |-> i]

\* C9: a generator pass for a side whose working list holds n symbols emits, if
\* n > 106, exactly the last 106 entries of the working list in their order and
\* sets the side's dataLimitReached to true; if n <= 106 it emits the whole list
\* and sets dataLimitReached to false.
C9_SymbolBudget ==
    TickDone =>
        \A side \in tick.generated :
            LET n == tick.working[side]
            IN  /\ n > 106 => /\ Len(es.sent[side]) = 106
                              /\ es.sent[side] = SubSeq(WorkingList(n), n - 105, n)
                              /\ side \in tick.limited
                /\ n <= 106 => /\ es.sent[side] = WorkingList(n)
                               /\ side \notin tick.limited

\* A pass with 108 symbols in its working list dropped the oldest one and set the
\* data-limit flag; a pass with exactly 106 sent them all.
C9_Witness ==
    /\ TickDone
    /\ tick.generated = Sides
    /\ tick.working["L"] = 108
    /\ es.sent["L"] = SubSeq(WorkingList(108), 2, 108)
    /\ "L" \in tick.limited
    /\ tick.working["R"] = 106
    /\ es.sent["R"] = WorkingList(106)
    /\ "R" \notin tick.limited
\* C10: upserting a symbol twice yields the same list, field for field, as
\* upserting it once, whatever the working list and the symbol; and the type of
\* every identifier in the list is the OR of the types of all occurrences
\* merged into it.
C10_UpsertIdempotent ==
    /\ \A symbol \in SymbolInputs :
          upsertSymbol(upsertSymbol(work.symbols, symbol), symbol)
              = upsertSymbol(work.symbols, symbol)
    /\ \A i \in 1..Len(work.symbols) :
          work.symbols[i].type = work.types[work.symbols[i].databaseId]

\* The second half of C10 alone: the type of an identifier is the OR of the types merged.
C10_TypeIsOrOfMerged ==
    \A i \in 1..Len(work.symbols) :
        work.symbols[i].type = work.types[work.symbols[i].databaseId]

\* The same symbol with one radial was upserted twice into an empty list: the
\* list holds it once, with the radial twice.
C10_Witness ==
    /\ work.upserts = 2
    /\ Len(work.symbols) = 1
    /\ work.symbols[1].type = {1}
    /\ work.symbols[1].radials = <<90, 90>>
    /\ work.symbols[1].radii = <<5, 5>>

\* The entries of a list other than those of one identifier, in list order.
Without(symbols, databaseId) == SelectSeq(symbols, LAMBDA e : e.databaseId # databaseId)

\* The value a scalar field of the merged entry must have: the value upserted
\* when it is present, else the value the list held for the identifier, if any.
LatestPresent(new, held) == IF new # Undefined THEN new ELSE held

C13_Table ==
    [ ARC |-> << <<105, 35, 83>>, <<205, 70, 166>>, <<405, 140, 332>>, <<805, 280, 664>>,
                 <<1605, 560, 1328>>, <<3205, 1120, 2656>> >>,
      ROSE_NAV |-> << <<76, 71, 71>>, <<147, 142, 142>>, <<289, 284, 284>>, <<573, 568, 568>>,
                      <<1141, 1136, 1136>>, <<2277, 2272, 2272>> >>,
      PLAN |-> << <<70, 70, 70>>, <<140, 140, 140>>, <<280, 280, 280>>, <<560, 560, 560>>,
                  <<1120, 1120, 1120>>, <<2240, 2240, 2240>> >> ]

C13_Band(range) ==
    CHOOSE b \in 1..6 :
        /\ b < 6 => range <= <<10, 20, 40, 80, 160>>[b]
        /\ \A a \in 1..(b - 1) : range > <<10, 20, 40, 80, 160>>[a]

C13_Expected(range, mode) ==
    IF mode \in DOMAIN C13_Table THEN C13_Table[mode][C13_Band(range)] ELSE <<0, 0, 0>>

\* The edit area the specification gives a pass, and its inclusion test on a
\* location: relative to the aircraft in ARC and ROSE, to the plan centre in PLAN.
C12_Inside(pass, ll) ==
    LET area == C13_Expected(pass.range, pass.mode)
        ref == IF pass.mode = "PLAN" THEN pass.termination ELSE pass.ppos
    IN  /\ Abs(ll[1] - ref[1]) < area[3]
        /\ ll[2] - ref[2] > -area[2]
        /\ ll[2] - ref[2] < area[1]

C12_Emitted(databaseId) ==
    \E i \in 1..Len(work.symbols) : work.symbols[i].databaseId = databaseId

\* C12: in every pass with a reference point (the aircraft in ARC and ROSE, the
\* plan centre in PLAN), every emitted symbol of a nearby facility, of a
\* flight-plan leg termination or of an airport lies inside the edit area of the
\* side's mode and range; with range 10 in ARC a leg 9 NM straight ahead is
\* emitted and a leg 11 NM straight ahead is not.
C12_EditAreaCulling ==
    (work.pass.mode # "none" /\ (work.pass.mode = "PLAN" => work.pass.termination # Undefined)) =>
        /\ \A i \in 1..Len(work.symbols) : C12_Inside(work.pass, work.symbols[i].location)
        /\ (work.pass.mode = "ARC" /\ work.pass.range = 10) =>
              /\ work.pass.legs[1].location = <<0, 90>> => C12_Emitted("W")
              /\ work.pass.legs[1].location = <<0, 110>> => ~C12_Emitted("W")

\* A pass in ARC with range 10 and a plan centre, whose leg ends 11 NM straight
\* ahead of the aircraft: the leg's symbol is in the list.
C12_Witness ==
    /\ work.pass.mode = "ARC"
    /\ work.pass.range = 10
    /\ work.pass.termination # Undefined
    /\ work.pass.legs[1].location = <<0, 110>>
    /\ C12_Emitted("W")

\* The overlay of nearby facilities under a plan centre is culled: every
\* emitted nearby symbol lies inside the edit area.
C12_OverlayCulled ==
    (work.pass.mode # "none" /\ work.pass.termination # Undefined) =>
        \A i \in 1..Len(work.symbols) :
            "EfisOption" \in work.symbols[i].type => C12_Inside(work.pass, work.symbols[i].location)

C14_Quiet(prev, now) ==
    /\ distanceTo(prev.ppos, now.ppos) <= 2
    /\ Abs(diffAngle(prev.trueHeading, now.trueHeading)) <= 2
    /\ prev.fpVersions = now.fpVersions
    /\ prev.planCentre = now.planCentre
    /\ prev.navaidVersion = now.navaidVersion
    /\ prev.vnavDriverVersion = now.vnavDriverVersion
    /\ prev.range = now.range /\ prev.mode = now.mode /\ prev.efisOption = now.efisOption
    /\ now.efisOption \notin {"None", "Constraints"} => prev.nearbyVersion = now.nearbyVersion

\* C14: in a pass that evaluates the gate of side S while no tracked signal
\* changed since the gate of S was last evaluated, no symbols event is
\* transmitted for S and the dataLimitReached flag of S is not written.
C14_GateSoundness ==
    TickDone =>
        \A side \in Sides :
            (/\ tick.gate[side] # "notEvaluated"
             /\ tick.prev[side] # <<>>
             /\ C14_Quiet(tick.prev[side][1], tick.now[side][1]))
                => side \notin tick.generated /\ side \notin tick.emptied

\* Two passes in a row found the selected waypoint to be a leg without a
\* termination, at the same position: the second one transmitted for side L.
C14_Witness ==
    /\ TickDone
    /\ tick.gate["L"] = "open"
    /\ tick.prev["L"] # <<>>
    /\ tick.prev["L"] = tick.now["L"]
    /\ tick.now["L"][1].planCentre = Undefined
    /\ "L" \in tick.generated

\* The list last transmitted to a side was generated from another version of
\* plan i than the plan has now.
C15_Stale(side, i) ==
    /\ Has(i)
    /\ MapHas(es.reflected[side], i)
    /\ es.reflected[side][i] # fps[i].version

\* C15: whenever the version of a tracked flight plan differs from the version
\* the list last transmitted to a side was generated from, a later pass
\* transmits to that side a list generated from the plan's current version (or
\* the plan is deleted), whatever way the pass that first observes the change ends.
C15_NoLostChange ==
    \A side \in Sides, i \in FpIndices : C15_Stale(side, i) ~> ~C15_Stale(side, i)

\* A pass has recorded the current version of a plan in lastFpVersions and ended
\* without transmitting to side R, whose list reflects an older version; the
\* generator is not blocked.
C15_Witness ==
    /\ TickDone
    /\ tick.pass \in {"noPlan", "noElement", "threw"}
    /\ ~es.blockUpdate
    /\ \E i \in FpIndices :
          /\ C15_Stale("R", i)
          /\ MapHas(es.lastFpVersions, i)
          /\ es.lastFpVersions[i] = fps[i].version

\* C16: an EfisSymbols.update call transmits a symbols event only when a timer
\* started by the last transmitting pass before it has fired (timers fire in the
\* order they were started, so fewer timers are pending than that pass
\* started); a call made while the generator is blocked transmits nothing and
\* leaves the change-detection cache as it was; and when a timer fires the
\* generator is unblocked.
C16_Throttle ==
    [][ /\ (tick'.generated # {} \/ tick'.emptied # {}) =>
              (tick'.ownBefore = 0 \/ tick'.timersBefore < tick'.ownBefore)
        /\ tick'.pass = "blocked" =>
              /\ tick'.generated = {} /\ tick'.emptied = {}
              /\ tick'.cacheBefore = <<Cache(es')>>
        /\ es'.timeouts < es.timeouts => ~es'.blockUpdate
    ]_vars

\* A pass transmitted to both sides and started two timers; since then the
\* first of them fired, another pass transmitted, the second one fired, and
\* this pass transmits while no timer of the pass before it has fired.
C16_Witness ==
    /\ TickDone
    /\ tick.generated # {}
    /\ tick.ownBefore > 0
    /\ tick.timersBefore >= tick.ownBefore

\* A call made in the blocked window returned at line 78.
C16_BlockedWitness ==
    /\ TickDone
    /\ tick.pass = "blocked"
    /\ tick.timersBefore > 0

\* The pass found no plan-centre element: the selected flight plan or the
\* selected element does not exist (lines 128-137), or the element resolved is
\* empty (line 192).
C17_NoCentre ==
    tick.pass \in {"noPlan", "noElement"} \/ tick.emptied # {}

\* C17: in a pass that finds no plan-centre element while side S is in PLAN
\* mode, S is sent the empty list (unless its gate is closed), and the other
\* side, when it is not in PLAN mode, is still evaluated in that pass and
\* receives its list when its gate is open.
C17_PlanWithoutCentre ==
    (TickDone /\ C17_NoCentre) =>
        \A side \in Sides : sim.ndMode[side] = "PLAN" =>
            /\ side \in tick.emptied \/ tick.gate[side] = "closed"
            /\ \A other \in Sides \ {side} : sim.ndMode[other] # "PLAN" =>
                  /\ tick.gate[other] # "notEvaluated"
                  /\ tick.gate[other] = "open" => other \in tick.generated

\* Side L is in PLAN mode, side R in ARC, and the selected waypoint index is
\* beyond the end of the active plan: the pass returned at line 136.
C17_Witness ==
    /\ TickDone
    /\ tick.pass = "noElement"
    /\ sim.ndMode["L"] = "PLAN"
    /\ sim.ndMode["R"] = "ARC"
    /\ tick.emptied = {}
    /\ tick.gate["R"] = "notEvaluated"

\* C18: a pass that scans a tracked plan whose slot holds no geometry does not
\* throw, runs to the end of the loop and transmits the side's list.
C18_AbsentGeometryTolerated ==
    (TickDone /\ tick.absent # {}) =>
        /\ "EfisSymbols.update" \notin tick.threw
        /\ tick.pass = "loop"
        /\ tick.generated # {}

\* The first frame: the active plan exists, the Guidance Controller has built
\* no geometry yet, and the generator's pass for side L threw.
C18_Witness ==
    /\ TickDone
    /\ tick.absent = {Active}
    /\ tick.gate["L"] = "open"
    /\ tick.pass = "threw"
    /\ tick.generated = {}

\* C19: in a tick whose map-reference stage ran with an existing selected plan
\* and a selected element that is a non-discontinuity XF leg, the stage did
\* not throw, and it wrote the termination of the geometry leg of the selected
\* (index, alternate) slot, or the aircraft position when that slot has no
\* geometry or the geometry has no such leg.
C19_Slot == (IF sim.selectedWaypointInAlternate THEN 100 ELSE 0) + sim.selectedWaypointFpIndex

C19_Selected ==
    /\ Has(sim.selectedWaypointFpIndex)
    /\ LET version == PlanVersion(sim.selectedWaypointFpIndex, sim.selectedWaypointInAlternate)
       IN  /\ HasElement(version, sim.selectedWaypointIndex)
           /\ IsXF(ElementAt(version, sim.selectedWaypointIndex))

C19_StageRan == \E k \in 1..Len(tick.ev) : tick.ev[k] = "updateMrpState"

C19_MapReferencePoint ==
    (TickDone /\ C19_StageRan /\ C19_Selected) =>
        /\ "updateMrpState" \notin tick.threw
        /\ tick.mrp =
              IF /\ MapHas(gc.flightPlanGeometries, C19_Slot)
                 /\ GeometryHasLeg(gc.flightPlanGeometries[C19_Slot], sim.selectedWaypointIndex)
              THEN <<MrpTermination(sim.selectedWaypointFpIndex, sim.selectedWaypointInAlternate,
                                    sim.selectedWaypointIndex)>>
              ELSE <<MrpPpos>>

\* A waypoint of the alternate of a newly created secondary plan is selected;
\* the primary slot has a geometry, the alternate slot has none, and the stage
\* threw without writing.
C19_Witness ==
    /\ TickDone /\ C19_StageRan /\ C19_Selected
    /\ tick.threw = {"updateMrpState"}
    /\ sim.selectedWaypointInAlternate
    /\ MapHas(gc.flightPlanGeometries, sim.selectedWaypointFpIndex)
    /\ ~MapHas(gc.flightPlanGeometries, C19_Slot)
    /\ tick.mrp = <<>>

\* The selected plan has no geometry in its primary slot: the stage returns
\* without writing the aircraft position.
C19_SilentWitness ==
    /\ TickDone /\ C19_StageRan /\ C19_Selected
    /\ ~MapHas(gc.flightPlanGeometries, sim.selectedWaypointFpIndex)
    /\ "updateMrpState" \notin tick.threw
    /\ tick.mrp = <<>>

\* The two writes of the stage, as the claim describes them, do happen.
C19_WrittenWitness ==
    /\ TickDone /\ C19_Selected
    /\ tick.mrp = <<MrpTermination(FirstSecondary, FALSE, 0)>>

\* C20: after a tick that entered the ident-refresh stage, the to-waypoint
\* identifier of side L and of side R is the ident of the active geometry's leg
\* at the active-leg index, or "PPOS" when there is no such leg or no active
\* geometry.
C20_StageRan == \E k \in 1..Len(tick.ev) : tick.ev[k] = "updateEfisIdent"

C20_Expected ==
    IF /\ MapHas(gc.flightPlanGeometries, Active)
       /\ GeometryHasLeg(gc.flightPlanGeometries[Active], ActiveLegIndex)
    THEN "TF" ELSE "PPOS"

C20_ToWaypointIdent ==
    (TickDone /\ C20_StageRan) =>
        \A side \in Sides : sim.toWptIdent[side] = C20_Expected

\* The active plan was deleted: the tick evicted its geometry, the stage threw
\* on the absent geometry, and both sides keep the ident of the earlier tick.
C20_Witness ==
    /\ TickDone /\ C20_StageRan
    /\ ~Has(Active)
    /\ ~MapHas(gc.flightPlanGeometries, Active)
    /\ "updateEfisIdent" \in tick.threw
    /\ \A side \in Sides : sim.toWptIdent[side] = "TF"

\* With an active geometry the stage writes the same ident to both sides.
C20_FreshWitness ==
    /\ TickDone /\ C20_StageRan
    /\ tick.threw = {}
    /\ MapHas(gc.flightPlanGeometries, Active)
    /\ \A side \in Sides : sim.toWptIdent[side] = "TF"

\* C21: in a frame, every tracked slot that holds a geometry and whose plan
\* exists keeps the same Geometry instance in the map, and every leg of it that
\* is still in the plan keeps its instance and its runtime state, whether the
\* slot is rebuilt in that frame or not.
SlotKey(slot) == (IF slot.alternate THEN 100 ELSE 0) + slot.index

C21_Rebuilt(key) ==
    \E k \in 1..Len(tick.calls) :
        /\ (IF tick.calls[k].alternate THEN 100 ELSE 0) + tick.calls[k].index = key
        /\ tick.calls[k].outcome = "update"

C21_IncrementalIdentity ==
    [][ (tick'.accumulated > 0) =>
          \A n \in 1..Len(TrackedSlots) :
             LET slot == TrackedSlots[n]
                 key == SlotKey(slot)
             IN  (Has(slot.index) /\ MapHas(gc.flightPlanGeometries, key)) =>
                    /\ MapHas(gc'.flightPlanGeometries, key)
                    /\ gc'.flightPlanGeometries[key].id = gc.flightPlanGeometries[key].id
                    /\ \A i \in DOMAIN gc.flightPlanGeometries[key].legs
                                 \cap LegIndices(PlanVersion(slot.index, slot.alternate)) :
                          gc'.flightPlanGeometries[key].legs[i] = gc.flightPlanGeometries[key].legs[i]
      ]_vars

\* The active geometry was updated in this frame after an immediate exit was
\* requested of its hold leg and a leg was appended: the hold leg still carries
\* the request, next to the leg the update created.
C21_Witness ==
    /\ TickDone
    /\ C21_Rebuilt(Active)
    /\ MapHas(gc.flightPlanGeometries, Active)
    /\ gc.flightPlanGeometries[Active].id = 1
    /\ HoldIndex \in DOMAIN gc.flightPlanGeometries[Active].legs
    /\ gc.flightPlanGeometries[Active].legs[HoldIndex].exit # <<>>
    /\ (HoldIndex + 1) \in DOMAIN gc.flightPlanGeometries[Active].legs

\* C22: the A32NX_IMM_EXIT handler sets holdImmExit and increments the version
\* of the active plan when the plan's leg at fpIndex is an HM leg, and calls
\* setImmediateExit and sets automaticSequencing when the active geometry's leg
\* at fpIndex is an HM leg; the frame that follows the event rebuilds the active
\* geometry in its conditional stage, from the incremented version.
C22_ConditionalRebuild ==
    \E k \in 1..Len(tick.calls) :
        /\ tick.calls[k].index = Active /\ ~tick.calls[k].alternate /\ ~tick.calls[k].force
        /\ tick.calls[k].outcome \in {"update", "create"}

C22_ImmediateExit ==
    tick.handler # <<>> =>
        LET event == tick.handler[1]
        IN  /\ event.fpLegHM =>
                  /\ fps[Active].holdImmExit = event.immExit
                  /\ fps[Active].version = event.version + 1
                  /\ TickDone =>
                        /\ C22_ConditionalRebuild
                        /\ gc.flightPlanGeometries[Active].ver = fps[Active].version
            /\ event.geometryLegHM =>
                  /\ gc.flightPlanGeometries[Active].legs[event.fpIndex].exit =
                        << [immExit |-> event.immExit, ppos |-> "lnavDriver.ppos",
                            tas |-> "AIRSPEED TRUE"] >>
                  /\ gc.automaticSequencing

\* The event reached a hold leg of the plan and of the geometry, the handler
\* set the request and incremented the version to that of the alternate, and
\* the frame after it made no conditional rebuild of the active geometry.
C22_Witness ==
    /\ TickDone
    /\ tick.handler # <<>>
    /\ tick.handler[1].fpLegHM /\ tick.handler[1].geometryLegHM /\ ~tick.handler[1].threw
    /\ fps[Active].version = tick.handler[1].version + 1
    /\ ~C22_ConditionalRebuild
    /\ gc.flightPlanGeometries[Active].ver < fps[Active].version

\* The event arrives while there is no active geometry: the handler throws and
\* the hold leg of the plan is left as it was.
C22_ThrowWitness ==
    /\ tick.handler # <<>>
    /\ tick.handler[1].fpLegHM /\ tick.handler[1].threw
    /\ fps[Active].version = tick.handler[1].version

\* The handler's effect on a hold leg while sequencing was suspended.
C22_HandledWitness ==
    /\ ~TickDone
    /\ tick.handler # <<>>
    /\ tick.handler[1].fpLegHM /\ tick.handler[1].geometryLegHM
    /\ tick.handler[1].immExit
    /\ fps[Active].holdImmExit
    /\ gc.automaticSequencing
    /\ gc.flightPlanGeometries[Active].legs[HoldIndex].exit # <<>>

\* C23: in every frame, a callback fired by taskQueue.update was pending with a
\* countdown the frame's deltaTime brings to zero, had not fired before, was
\* not cancelled, and is removed; the cancel of the EfisVectors category
\* leaves the entries of other categories pending, their countdown decremented
\* by the update alone.
C23_Entries(queue, ids) == {queue[i] : i \in {j \in 1..Len(queue) : queue[j].id \in ids}}

C23_TaskQueueContract ==
    [][ (tick'.accumulated > 0) =>
          LET deltaTime == tick'.accumulated - gc.geometryRecomputationTimer
              updated == /\ \E k \in 1..Len(tick'.ev) : tick'.ev[k] = "taskQueue.update"
                         /\ "taskQueue.update" \notin tick'.threw
              others == {gc.taskQueue[i] : i \in {j \in 1..Len(gc.taskQueue) :
                                                    gc.taskQueue[j].category # "EfisVectors"}}
          IN  /\ tick'.fired \cap gc.fired = {}
              /\ tick'.fired \cap gc'.cancelled = {}
              /\ ~updated => tick'.fired = {}
              /\ \A id \in tick'.fired :
                    \E e \in C23_Entries(gc.taskQueue, {id}) : e.delay - deltaTime <= 0
              /\ C23_Entries(gc'.taskQueue, gc'.fired \cup gc'.cancelled) = {}
              /\ \A e \in others :
                    IF updated
                    THEN IF e.delay - deltaTime <= 0
                         THEN e.id \in tick'.fired
                         ELSE [e EXCEPT !.delay = @ - deltaTime] \in C23_Entries(gc'.taskQueue, {e.id})
                    ELSE e \in C23_Entries(gc'.taskQueue, {e.id})
      ]_vars

\* A frame that cancelled a pending EfisVectors task and fired a task of the
\* other category.
C23_Witness ==
    /\ TickDone
    /\ tick.fired # {}
    /\ tick.pending # {}
    /\ tick.pending \subseteq gc.cancelled
    /\ gc.taskQueue = <<>>

\* C24: a leg scan of getFlightPlanSymbols visits the indices from legCount - 1
\* down to max(0, activeLegIndex - 1), each once, in descending order.
C24_Range(legCount, activeLegIndex) ==
    LET first == Max(0, activeLegIndex - 1)
        n == IF legCount - 1 >= first THEN legCount - first ELSE 0
    IN  [k \in 1..n |-> legCount - k]

C24_LegScanRange ==
    work.pass.mode = "scan" =>
        work.pass.visited = C24_Range(work.pass.legCount, work.pass.activeLegIndex)

\* Five legs, active-leg index 2, no geometry in the slot: the scan visits
\* index 4 and throws there; 3, 2 and the from leg 1 are not visited.
C24_Witness ==
    /\ work.pass.mode = "scan"
    /\ work.pass.legCount = 5 /\ work.pass.activeLegIndex = 2
    /\ work.pass.geometry = Undefined
    /\ work.pass.threw
    /\ work.pass.visited = <<4>>

\* With a geometry the scan is the range of the claim: 4, 3, 2, 1 and not 0.
C24_WithGeometry ==
    (work.pass.mode = "scan" /\ work.pass.geometry # Undefined) =>
        /\ ~work.pass.threw
        /\ work.pass.visited = C24_Range(work.pass.legCount, work.pass.activeLegIndex)

C24_ScenarioWitness ==
    /\ work.pass.mode = "scan"
    /\ work.pass.legCount = 5 /\ work.pass.activeLegIndex = 2
    /\ work.pass.visited = <<4, 3, 2, 1>>

\* C25: for a value within the formatter's range and at or above the
\* transition altitude, parsing the text of format gives the value rounded to
\* the hundred, with FlightLevelFormat and with AltitudeOrFlightLevelFormat.
C25_RoundTrip ==
    (work.pass.mode = "format" /\ work.pass.value >= work.pass.subject) =>
        work.pass.parsed = <<RoundHundreds(work.pass.value) * 100>>

\* 43000 ft with the transition altitude notified: the text is 430, which the
\* parser reads as 430 ft.
C25_Witness ==
    /\ work.pass.mode = "format"
    /\ work.pass.class = "AltitudeOrFlightLevelFormat"
    /\ work.pass.notified
    /\ work.pass.value = 43000
    /\ work.pass.text = <<"4", "3", "0">>
    /\ work.pass.parsed = <<430>>

\* The field transAlt never notified: 18050 ft is formatted in feet and parsed
\* as 18050, not as flight level 181.
C25_UnnotifiedWitness ==
    /\ work.pass.mode = "format"
    /\ work.pass.class = "AltitudeOrFlightLevelFormat"
    /\ ~work.pass.notified
    /\ work.pass.value = 18050
    /\ work.pass.parsed = <<18050>>

\* What does hold: the round trip of FlightLevelFormat, and that of
\* AltitudeOrFlightLevelFormat below flight level 430 once transAlt is set.
C25_RoundTripBelow430 ==
    (/\ work.pass.mode = "format"
     /\ work.pass.value >= work.pass.subject
     /\ \/ work.pass.class = "FlightLevelFormat"
        \/ work.pass.notified /\ RoundHundreds(work.pass.value) < 430) =>
        work.pass.parsed = <<RoundHundreds(work.pass.value) * 100>>

\* C26: every tick enters the geometry stage, the map-reference-point stage
\* and the map-partly-displayed stage, then calls the updates of the LNAV
\* driver, the VNAV driver, the pseudo-waypoints, the EFIS vectors and the task
\* queue, each once and in that order.
C26_Stages ==
    << "condRebuild", "updateMrpState", "updateMapPartlyDisplayed", "lnavDriver.update",
       "vnavDriver.update", "pseudoWaypoints.update", "efisVectors.update", "taskQueue.update" >>

C26_Run == SelectSeq(tick.ev, LAMBDA e : \E k \in 1..Len(C26_Stages) : C26_Stages[k] = e)

C26_DriverOrder == TickDone => C26_Run = C26_Stages

\* The refresh of an EfisState threw: update() was left and no driver ran.
C26_Witness ==
    /\ TickDone
    /\ tick.propagated
    /\ "updateEfisState" \in tick.threw
    /\ C26_Run = <<>>

\* When update() is not left at lines 338-339, the order holds whichever
\* stages or drivers throw.
C26_OrderWhenEntered == (TickDone /\ ~tick.propagated) => C26_Run = C26_Stages

\* A tick in which the LNAV driver threw and the later drivers ran.
C26_IsolatedWitness ==
    /\ TickDone
    /\ "lnavDriver.update" \in tick.threw
    /\ C26_Run = C26_Stages

\* C27: a frame that directly follows a frame, so that no version counter has
\* changed in between, and that makes no forced rebuild, neither creates nor
\* updates a geometry.
C27_Forced == \E k \in 1..Len(tick.ev) : tick.ev[k] = "forcedRebuild"

C27_CheapNoOp ==
    (TickDone /\ tick.consecutive /\ ~C27_Forced) =>
        \A k \in 1..Len(tick.calls) : tick.calls[k].outcome \in {"skip", "evict"}

\* The active plan is at version 2 and its alternate at another version: the
\* frame after the first frame updates both geometries again.
C27_Witness ==
    /\ TickDone /\ tick.consecutive /\ ~C27_Forced
    /\ fps[Active].version = 2 /\ fps[Active].altVersion # 2
    /\ Len(tick.calls) = Len(TrackedSlots)
    /\ tick.calls[1].outcome = "update" /\ tick.calls[2].outcome = "update"
    /\ gc.flightPlanGeometries[Active].ver = 2

\* C28: a frame rebuilds, in its conditional stage, every tracked slot whose
\* geometry was last built from another version than that of its plan.
C28_NoMissedRebuild ==
    [][ (tick'.accumulated > 0) =>
          \A n \in 1..Len(TrackedSlots) :
             LET slot == TrackedSlots[n]
                 key == SlotKey(slot)
             IN  ( /\ Has(slot.index)
                   /\ MapHas(gc.flightPlanGeometries, key)
                   /\ gc.flightPlanGeometries[key].ver # PlanVersion(slot.index, slot.alternate) ) =>
                    \E k \in 1..Len(tick'.calls) :
                        /\ tick'.calls[k].index = slot.index
                        /\ tick'.calls[k].alternate = slot.alternate
                        /\ ~tick'.calls[k].force
                        /\ tick'.calls[k].outcome = "update"
      ]_vars

\* The active plan reached the version of its alternate: the frame skipped the
\* active slot, whose geometry is still that of the version before.
C28_Witness ==
    /\ TickDone /\ ~C27_Forced
    /\ Len(tick.calls) = Len(TrackedSlots)
    /\ tick.calls[1].exists /\ tick.calls[1].outcome = "skip"
    /\ fps[Active].version = fps[Active].altVersion
    /\ gc.flightPlanGeometries[Active].ver < fps[Active].version

\* C29: after a tick whose rebuilds did not throw, every tracked slot whose
\* flight plan exists holds a geometry.
C29_GeometryPresence ==
    (TickDone /\ ~tick.propagated /\ "rebuild" \notin tick.threw) =>
        \A slot \in SlotSet : Has(slot.index) => MapHas(gc.flightPlanGeometries, SlotKey(slot))

\* The first secondary plan was deleted, evicted, and created again with the
\* version last seen for its index: the tick leaves its slot empty.
C29_Witness ==
    /\ TickDone /\ ~tick.propagated /\ tick.threw = {}
    /\ Has(FirstSecondary)
    /\ MapHas(gc.lastFlightPlanVersions, FirstSecondary)
    /\ gc.lastFlightPlanVersions[FirstSecondary] = fps[FirstSecondary].version
    /\ ~MapHas(gc.flightPlanGeometries, FirstSecondary)

\* C30: at the end of a tick with an active geometry, the geometry last
\* accepted by the VNAV driver and by the pseudo-waypoints is that instance.
C30_ConsumersHoldActive ==
    (TickDone /\ MapHas(gc.flightPlanGeometries, Active)) =>
        /\ gc.accepted.vnavDriver = gc.flightPlanGeometries[Active].id
        /\ gc.accepted.pseudoWaypoints = gc.flightPlanGeometries[Active].id

\* The active plan was deleted and created again: a conditional rebuild
\* created the new active geometry, and the consumers hold the evicted one.
C30_Witness ==
    /\ TickDone /\ ~C27_Forced
    /\ MapHas(gc.flightPlanGeometries, Active)
    /\ gc.flightPlanGeometries[Active].id > 1
    /\ gc.accepted.vnavDriver = 1
    /\ gc.accepted.pseudoWaypoints = 1

\* The counts of a generator pass that upserts l symbols for the left side and
\* r for the right side.
SideCounts(l, r) == [side \in Sides |-> IF side = "L" THEN l ELSE r]

\* The data-limit flag of a side and the MAP_PARTLY_DISPLAYED flag written for
\* it, after a frame.
SideFlags(s, side) ==
    [dataLimitReached |-> s.gc.heap[s.gc.efisStateForSide[side]].dataLimitReached,
     mapPartlyDisplayed |-> s.sim.mapPartlyDisplayed[side]]

\* C31: two frames run from the same state whose generator passes differ only
\* in the number of symbols of the other side end with the same
\* dataLimitReached of a side and the same MAP_PARTLY_DISPLAYED flag of that
\* side, for the left side and for the right side.
C31_SideIndependence ==
    phase = "running" =>
        \A deltaTime \in DeltaTimes, own \in SymbolCounts, n1 \in SymbolCounts, n2 \in SymbolCounts :
            /\ SideFlags(HostFrame(State, deltaTime, {}, SideCounts(own, n1)), "L")
                  = SideFlags(HostFrame(State, deltaTime, {}, SideCounts(own, n2)), "L")
            /\ SideFlags(HostFrame(State, deltaTime, {}, SideCounts(n1, own)), "R")
                  = SideFlags(HostFrame(State, deltaTime, {}, SideCounts(n2, own)), "R")

\* A frame generated 2 symbols for the left side and 108 for the right side,
\* and left the data-limit flag and the MAP_PARTLY_DISPLAYED flag of the left
\* side set.
C31_Witness ==
    /\ TickDone
    /\ tick.generated = Sides
    /\ tick.working["L"] = 2
    /\ tick.working["R"] = 108
    /\ StageRan("updateMapPartlyDisplayed")
    /\ SideFlags(State, "L") = [dataLimitReached |-> TRUE, mapPartlyDisplayed |-> TRUE]

\* C32: in a pass that reaches the loop over the sides after an earlier one
\* did, if the plan centre it resolved differs from the one the earlier pass
\* resolved, planCentreChanged is true and the pass transmits a list to each
\* side; if it is the same, planCentreChanged is false.
C32_PlanCentreChangeDetection ==
    (TickDone /\ tick.pass = "loop" /\ tick.prev["L"] # <<>>) =>
        LET prev == tick.prev["L"][1].planCentre
            now == tick.now["L"][1].planCentre
        IN  /\ prev # now => /\ tick.planCentreChanged
                             /\ \A side \in Sides : side \in tick.generated \cup tick.emptied
            /\ prev = now => ~tick.planCentreChanged

\* The pilot selected the waypoint of leg 3 of the active plan after that of
\* leg 0, and nothing else changed: the pass computed planCentreChanged as false and
\* transmitted no list.
C32_Witness ==
    /\ TickDone /\ tick.pass = "loop"
    /\ tick.prev["L"] # <<>>
    /\ tick.prev["L"][1].planCentre = <<Active, FALSE, 0>>
    /\ tick.now["L"][1].planCentre = <<Active, FALSE, 3>>
    /\ [tick.prev["L"][1] EXCEPT !.planCentre = Undefined]
          = [tick.now["L"][1] EXCEPT !.planCentre = Undefined]
    /\ ~tick.planCentreChanged
    /\ tick.generated = {} /\ tick.emptied = {}

\* Two passes in a row resolved no plan centre, after one that had resolved
\* one: the second computed planCentreChanged as true.
C32_SameWitness ==
    /\ TickDone /\ tick.pass = "loop"
    /\ tick.prev["L"] # <<>>
    /\ tick.prev["L"][1].planCentre = Undefined
    /\ tick.now["L"][1].planCentre = Undefined
    /\ tick.planCentreChanged

\* The symbols a call returned for the legs of its plan from index i on.
LegsFrom(k, i) ==
    {n \in 1..Len(work.pass.rets[k]) :
        \E j \in (i + 1)..Len(PlanLegs(CallSites[k])) :
            work.pass.rets[k][n].databaseId = PlanLegs(CallSites[k])[j].databaseId}

\* C33: a call of getFlightPlanSymbols returns a symbol for a leg at or beyond
\* firstMissedApproachLegIndex only if the selected-waypoint flight-plan index
\* is the index of the plan it scans and firstMissedApproachLegIndex minus the
\* selected-waypoint index is less than 4, for each of the five plans.
C33_MissedApproachLegs ==
    work.pass.mode = "legs" =>
        \A k \in 1..Len(work.pass.rets) :
            LegsFrom(k, firstMissedApproachLegIndex) # {} =>
                /\ work.pass.in.planCentreFpIndex = PlanIndex(CallSites[k])
                /\ firstMissedApproachLegIndex - work.pass.in.planCentreIndex < 4

\* C33 for the calls given the active plan, its alternate and the secondary plan.
C33_ActiveAndSecondary ==
    work.pass.mode = "legs" =>
        \A k \in 1..Len(work.pass.rets) :
            (CallSites[k] \in {"ACTIVE", "ACTIVE ALTN", "SEC"}
             /\ LegsFrom(k, firstMissedApproachLegIndex) # {}) =>
                /\ work.pass.in.planCentreFpIndex = PlanIndex(CallSites[k])
                /\ firstMissedApproachLegIndex - work.pass.in.planCentreIndex < 4

\* The pilot views the active plan within 4 legs of its missed approach: the
\* pass returned the missed-approach leg of the alternate of the secondary
\* plan, and not that of the secondary plan.
C33_Witness ==
    /\ work.pass.mode = "legs" /\ Len(work.pass.rets) = 5
    /\ work.pass.in.planCentreFpIndex = Active
    /\ work.pass.in.planCentreIndex = 1
    /\ LegsFrom(5, firstMissedApproachLegIndex) # {}
    /\ LegsFrom(4, firstMissedApproachLegIndex) = {}

\* The leg of the plan a symbol of a call was made for.
LegOf(k, symbol) ==
    CHOOSE leg \in {PlanLegs(CallSites[k])[j] : j \in 1..Len(PlanLegs(CallSites[k]))} :
        leg.databaseId = symbol.databaseId

\* C34: a symbol returned by getFlightPlanSymbols has the Constraint flag only
\* if lateral auto control is active and shouldShowConstraintCircleInPhase
\* holds of its leg in the flight phase, the active leg included.
C34_ConstraintFlag ==
    work.pass.mode = "legs" =>
        \A k \in 1..Len(work.pass.rets) : \A n \in 1..Len(work.pass.rets[k]) :
            "Constraint" \in work.pass.rets[k][n].type =>
                /\ work.pass.in.isInLatAutoControl
                /\ shouldShowConstraintCircleInPhase(work.pass.in.flightPhase,
                                                     LegOf(k, work.pass.rets[k][n]))

\* C34 for the legs other than the active leg.
C34_ButActiveLeg ==
    work.pass.mode = "legs" =>
        \A k \in 1..Len(work.pass.rets) : \A n \in 1..Len(work.pass.rets[k]) :
            ("Constraint" \in work.pass.rets[k][n].type
             /\ "ActiveLegTermination" \notin work.pass.rets[k][n].type) =>
                /\ work.pass.in.isInLatAutoControl
                /\ shouldShowConstraintCircleInPhase(work.pass.in.flightPhase,
                                                     LegOf(k, work.pass.rets[k][n]))

\* In descent, the symbol of the active leg of the active plan, a leg with a
\* climb constraint, has the Constraint flag.
C34_Witness ==
    /\ work.pass.mode = "legs" /\ Len(work.pass.rets) = 5
    /\ work.pass.in.flightPhase = "Descent"
    /\ work.pass.in.activeLegIndex = 1
    /\ \E n \in 1..Len(work.pass.rets[1]) :
          /\ work.pass.rets[1][n].databaseId = <<"W", 1>>
          /\ {"ActiveLegTermination", "Constraint"} \subseteq work.pass.rets[1][n].type

\* C35: no symbol of the list of a pass has both the AmberColor and the
\* MagentaColor flag, after the upserts of the symbols of all the plans.
C35_ColourExclusive ==
    work.pass.mode = "legs" =>
        \A n \in 1..Len(work.symbols) :
            ~({"AmberColor", "MagentaColor"} \subseteq work.symbols[n].type)

\* C35 for the list a single call returns.
C35_ExclusivePerCall ==
    work.pass.mode = "legs" =>
        \A k \in 1..Len(work.pass.rets) : \A n \in 1..Len(work.pass.rets[k]) :
            ~({"AmberColor", "MagentaColor"} \subseteq work.pass.rets[k][n].type)

\* The constraint of W2 is predicted met at leg 1 and missed at leg 2: W2 is
\* leg 2 of the active plan and leg 1 of the temporary plan, and its symbol in
\* the list of the pass is both amber and magenta.
C35_Witness ==
    /\ work.pass.mode = "legs" /\ Len(work.pass.rets) = 5
    /\ work.pass.in.waypointPredictions[1] = "met"
    /\ work.pass.in.waypointPredictions[2] = "unmet"
    /\ \E n \in 1..Len(work.symbols) :
          /\ work.symbols[n].databaseId = <<"W", 2>>
          /\ {"AmberColor", "MagentaColor"} \subseteq work.symbols[n].type

\* C36: the navigateTo call made last did not throw; activeUri.uri is the top
\* of the navigation stack when the stack is not empty; and if the call was
\* navigateTo('back') made while canGoBack() was false, activeUri and the
\* navigation stack are what they were before it.
C36_NavigationStack ==
    ui.nav.last # <<>> =>
        LET call == ui.nav.last[1]
        IN  /\ ~call.threw
            /\ ui.nav.navigationStack # <<>> =>
                  ui.nav.activeUri.uri = ui.nav.navigationStack[Len(ui.nav.navigationStack)]
            /\ (call.uri = Back /\ ~call.canGoBack) =>
                  /\ ui.nav.activeUri = call.activeUri
                  /\ ui.nav.navigationStack = call.navigationStack

\* The second conjunct of C36 alone.
C36_ActiveIsTop ==
    ui.nav.navigationStack # <<>> =>
        ui.nav.activeUri.uri = ui.nav.navigationStack[Len(ui.nav.navigationStack)]

\* navigateTo('back') was called on the first page visited: it threw and left
\* the stack empty under the page still active.
C36_Witness ==
    /\ ui.nav.last # <<>>
    /\ ui.nav.last[1].uri = Back
    /\ ~ui.nav.last[1].canGoBack
    /\ Len(ui.nav.last[1].navigationStack) = 1
    /\ ui.nav.last[1].threw
    /\ ui.nav.navigationStack = <<>>
    /\ ui.nav.activeUri.uri \in PageUris

\* C37: the field is never focused and validating at once; a focus event
\* handled while the field validates leaves it unfocused; and a change of the
\* value from outside handled while the field is focused or validating leaves
\* modifiedFieldValue and the rendered text as they were.
C37_EditingExclusion ==
    /\ ~(ui.field.isFocused /\ ui.field.isValidating)
    /\ ui.field.last # <<>> =>
          LET before == ui.field.last[1]
          IN  /\ (before.event = "focus" /\ before.isValidating) => ~ui.field.isFocused
              /\ (before.event = "valueChange" /\ (before.isFocused \/ before.isValidating)) =>
                    /\ ui.field.modifiedFieldValue = before.modifiedFieldValue
                    /\ ui.field.display = before.display

\* The value changed from outside while the field validated the pilot's input
\* "1": the input is still pending and the text rendered is the one typed.
C37_Witness ==
    /\ ui.field.last # <<>>
    /\ ui.field.last[1].event = "valueChange"
    /\ ui.field.last[1].isValidating
    /\ ui.field.isValidating
    /\ ui.field.modifiedFieldValue = << <<"1">> >>
    /\ ui.field.display = [from |-> "modified", text |-> <<"1">>]
    /\ ui.field.value # <<>>

\* C38: a validateAndUpdate that started leads to isValidating = false and
\* modifiedFieldValue = null, whatever parse, dataHandlerDuringValidation and
\* onModified do, the promises settling.
C38_ValidationCompletes ==
    ui.field.isValidating ~> (~ui.field.isValidating /\ ui.field.modifiedFieldValue = <<>>)

\* The validation ended by a throw of onModified: nothing is awaited any more,
\* and the field is still validating.
C38_Witness ==
    /\ ui.field.last # <<>>
    /\ ui.field.last[1].event = "threw"
    /\ ui.field.pc = "idle"
    /\ ui.field.isValidating

\* validateAndUpdate returned without a throw of onModified: the field has
\* stopped validating and holds no input.
C38_UnlessOnModifiedThrows ==
    (ui.field.last # <<>> /\ ui.field.last[1].event = "validated")
        => (~ui.field.isValidating /\ ui.field.modifiedFieldValue = <<>>)

====
